---- MODULE Spec2Model ----
(***************************************************************************)
(* Model of the multimodal fusion core (src/modules/fusion): the event bus *)
(* (events.py), the session state manager (state_manager.py), the rule    *)
(* fusion engine (rule_fusion.py) and the scenario handler                 *)
(* (scenario_handler.py).                                                  *)
(*                                                                         *)
(* publish() runs every handler synchronously on the caller, so each       *)
(* producer call is one action; the nested calls are operators that thread *)
(* a record of the four singletons' fields.  time.time() is the variable   *)
(* now, in seconds; confidences are in percent; a missing dict key or a    *)
(* Python None is the string "none"; uuid4 session ids are a fresh counter.*)
(***************************************************************************)
EXTENDS Integers, Sequences, FiniteSets, TLC

VARIABLES
  now,               \* time.time()
  current_state,     \* StateManager.current_state
  current_session,   \* StateManager.current_session: <<>> is None, else <<session>>
  session_history,   \* StateManager.session_history
  next_id,           \* the next fresh session_id
  event_history,     \* EventBus._event_history
  interaction_log,   \* RuleFusionEngine.interaction_log
  response_history,  \* ScenarioHandler.response_history
  reminders,         \* the timeout_reminder threads still asleep or not yet run
  calls,             \* number of producer calls made
  last_call,         \* the last producer call: its name, argument and return value
  test,              \* the test of test_multimodal_fusion.py that drives the run, if any
  _subscribers,      \* EventBus._subscribers: event type -> list of callbacks
  invoked,           \* the callbacks the last publish on the bus alone invoked, in order
  published,         \* every event handed to publish on the bus alone, in order
  last_recent_events, \* the last call of get_recent_events: arguments and result
  threads,           \* the producer threads: where each is in its publish
  timers,            \* the timeout_reminder threads that woke up: where each is
  ended,             \* every session appended to session_history so far, in order
  sent,              \* every response appended to response_history so far, in order
  logged,            \* every entry appended to interaction_log so far, in order
  entered,           \* every state change_state has set so far, in order
  seen,              \* what each dispatch of ATTENTION_CONFIRMED found: session and state
  scheduled,         \* the session id of every reminder thread started, in order
  raising,           \* whether the callback subscribed for ATTENTION_CONFIRMED raises
  fusion_rules,      \* RuleFusionEngine.fusion_rules: scenario -> FusionRule
  pf_rule,           \* the rule argument of _perform_fusion called on its own, if any
  pf_events,         \* the events argument of _perform_fusion called on its own
  pf_result          \* what that call returned last: <<>> before the first call

vars == <<now, current_state, current_session, session_history, next_id,
          event_history, interaction_log, response_history, reminders, calls,
          last_call, test, _subscribers, invoked, published, last_recent_events,
          threads, timers, ended, sent, logged, entered, seen, scheduled,
          raising,
          fusion_rules, pf_rule,
          pf_events, pf_result>>

\* the state of the bus observed on its own, and of the threads
busvars == <<_subscribers, invoked, published, last_recent_events>>
thrvars == <<threads, timers>>
\* the record of everything the three bounded lists were ever given, and of
\* the states the system went through
histvars == <<ended, sent, logged, entered, seen, scheduled>>
\* _perform_fusion called on its own
fusvars == <<pf_rule, pf_events, pf_result>>

(*************************** bounds of the model ***************************)
\* the clock advances in steps of TickStep seconds up to MaxTime
TickStep == 5
MaxTime == 20
\* number of producer calls (publish, trigger_*, start/add/end) in a run of Spec
MaxCalls == 2
\* number of publish calls the producer threads make between them
MaxThreadCalls == 3
\* the longest list of events _perform_fusion is called with on its own
MaxWindow == 3

(**************************** program constants ****************************)
None == "none"
NoId == 0

IDLE == "idle"
WAITING_RESPONSE == "waiting_response"
INTERACTION_COMPLETE == "interaction_complete"

DISTRACTION_ALERT == "distraction_alert"
VOICE_COMMAND == "voice_command"
GESTURE_CONTROL == "gesture_control"

AUDIO == "audio"
VISION == "vision"
GESTURE == "gesture"
GAZE == "gaze"
HEAD_POSE == "head_pose"

SPEECH_RECOGNIZED == "speech_recognized"
INTENT_CLASSIFIED == "intent_classified"
GESTURE_DETECTED == "gesture_detected"
GAZE_CHANGED == "gaze_changed"
HEAD_POSE_CHANGED == "head_pose_changed"
DISTRACTION_DETECTED == "distraction_detected"
ATTENTION_CONFIRMED == "attention_confirmed"
INTERACTION_COMPLETED == "interaction_completed"

MAJORITY_VOTE == "majority_vote"
CONFIDENCE_WEIGHTED == "confidence_weighted"
PRIORITY_BASED == "priority_based"
TIME_WINDOW == "time_window"

TEXT == "text"
VISUAL == "visual"

_max_history == 1000
MaxSessionHistory == 100
MaxInteractionLog == 1000
KeepInteractionLog == 500
MaxResponseHistory == 500
KeepResponseHistory == 250
ReminderDelay == 8
DistractionTimeout == 15
VoiceCommandTimeout == 8
GestureControlTimeout == 5
DefaultTimeout == 10

(***************************** confidences *********************************)
\* a float confidence is the exact fraction num/den
Conf(percent) == [num |-> percent, den |-> 100]

FracLess(a, b) == a.num * b.den < b.num * a.den

RECURSIVE Gcd(_, _)
Gcd(a, b) == IF b = 0 THEN a ELSE Gcd(b, a % b)

Lcm(a, b) == (a * b) \div Gcd(a, b)

(****************************** sequences **********************************)
Range(s) == {s[i] : i \in 1..Len(s)}

\* s[-n:] of Python
LastN(s, n) == IF Len(s) <= n THEN s ELSE SubSeq(s, Len(s) - n + 1, Len(s))

\* sum(s) of Python
RECURSIVE SumSeq(_)
SumSeq(s) == IF s = <<>> THEN 0 ELSE s[1] + SumSeq(Tail(s))

(******************************* events.py *********************************)
\* the data dict of an event, one field per key the core reads or writes
NoData ==
  [state |-> None, gesture |-> None, intent |-> None, response_type |-> None,
   text |-> None, decision |-> None, gaze_state |-> None]

ModalityEvent(event_type, modality, timestamp, confidence, data, session_id) ==
  [event_type |-> event_type, modality |-> modality, timestamp |-> timestamp,
   confidence |-> confidence, data |-> data, session_id |-> session_id]

(**************************** state_manager.py *****************************)
InteractionSession(session_id, scenario, start_time, expected_modalities, timeout) ==
  [session_id |-> session_id, scenario |-> scenario, start_time |-> start_time,
   state |-> WAITING_RESPONSE, expected_modalities |-> expected_modalities,
   received_events |-> <<>>, timeout |-> timeout,
   metadata |-> [end_reason |-> None, duration |-> 0]]

\* is_expired with >= for >
is_expired_at_timeout(session, t) == t - session.start_time >= session.timeout

\* InteractionSession.is_expired at time t
is_expired(session, t) == t - session.start_time > session.timeout

\* InteractionSession.duration at time t
duration(session, t) == t - session.start_time

(*************************** scenario_handler.py ***************************)
SystemResponse(response_type, content, session_id, t) ==
  [response_type |-> response_type, content |-> content,
   session_id |-> session_id, timestamp |-> t]

\* _send_response that cuts the full history to its oldest entries
_send_response_keep_oldest(st, response) ==
  LET appended == Append(st.response_history, response) IN
  [st EXCEPT !.response_history =
                IF Len(appended) > MaxResponseHistory
                  THEN SubSeq(appended, 1, KeepResponseHistory) ELSE appended,
             !.sent = Append(@, response)]

\* ScenarioHandler._send_response
_send_response(st, response) ==
  LET appended == Append(st.response_history, response) IN
  [st EXCEPT !.response_history =
                IF Len(appended) > MaxResponseHistory
                  THEN LastN(appended, KeepResponseHistory) ELSE appended,
             !.sent = Append(@, response)]

\* ScenarioHandler._schedule_timeout_reminder: starts the timer thread
_schedule_timeout_reminder(st, session_id, delay) ==
  [st EXCEPT !.reminders = @ \cup {[session_id |-> session_id, due |-> st.now + delay]},
             !.scheduled = Append(@, session_id)]

\* ScenarioHandler._on_waiting_response
_on_waiting_response(st, session_id) ==
  _schedule_timeout_reminder(st, session_id, ReminderDelay)

\* ScenarioHandler._handle_distraction_detected with
\* _generate_distraction_alert_responses
_handle_distraction_detected(st, event) ==
  LET sid == event.session_id
      r1 == SystemResponse(TEXT, "distraction_alert", sid, st.now)
      r2 == SystemResponse(AUDIO, "distraction_alert", sid, st.now)
      r3 == SystemResponse(VISUAL, "distraction_alert", sid, st.now)
  IN _send_response(_send_response(_send_response(st, r1), r2), r3)

\* ScenarioHandler._handle_attention_confirmed with
\* _generate_attention_confirmed_responses
_handle_attention_confirmed(st, event) ==
  LET sid == event.session_id
      decision == event.data.decision
      content == IF decision \in {"confirm", "attention"}
                   THEN "attention_acknowledged" ELSE "attention_caution"
      r1 == SystemResponse(TEXT, content, sid, st.now)
      r2 == SystemResponse(AUDIO, content, sid, st.now)
      r3 == SystemResponse(VISUAL, content, sid, st.now)
  IN _send_response(_send_response(_send_response(st, r1), r2), r3)

(**************************** state_manager.py *****************************)
\* StateManager.change_state: the only state-change callback ever
\* subscribed for a state that is entered is _on_waiting_response
\* variant: a reminder thread is started at every change of state
change_state_always_reminding(st, new_state, session_id) ==
  _on_waiting_response([st EXCEPT !.current_state = new_state,
                                  !.entered = Append(@, new_state)], session_id)

change_state(st, new_state, session_id) ==
  LET st1 == [st EXCEPT !.current_state = new_state,
                        !.entered = Append(@, new_state)] IN
  IF new_state = WAITING_RESPONSE
    THEN _on_waiting_response(st1, session_id)
    ELSE st1

\* end_current_session that records the session and leaves it current
end_current_session_not_cleared(st, reason) ==
  IF st.current_session = <<>> THEN st
  ELSE
    LET session == [st.current_session[1] EXCEPT
                      !.metadata = [end_reason |-> reason,
                                    duration |-> duration(st.current_session[1], st.now)]]
    IN [st EXCEPT !.session_history = Append(@, session),
                  !.ended = Append(@, session)]

\* end_current_session that drops the newest entry of a full history
end_current_session_drop_newest(st, reason) ==
  IF st.current_session = <<>> THEN st
  ELSE
    LET session == [st.current_session[1] EXCEPT
                      !.metadata = [end_reason |-> reason,
                                    duration |-> duration(st.current_session[1], st.now)]]
        appended == Append(st.session_history, session)
        st1 == [st EXCEPT
                  !.session_history =
                     IF Len(appended) > MaxSessionHistory
                       THEN SubSeq(appended, 1, MaxSessionHistory) ELSE appended,
                  !.current_session = <<>>,
                  !.ended = Append(@, session)]
    IN change_state(st1, IDLE, NoId)

\* end_current_session that leaves the system in INTERACTION_COMPLETE
end_current_session_interaction_complete(st, reason) ==
  IF st.current_session = <<>> THEN st
  ELSE
    LET session == [st.current_session[1] EXCEPT
                      !.metadata = [end_reason |-> reason,
                                    duration |-> duration(st.current_session[1], st.now)]]
        appended == Append(st.session_history, session)
        st1 == [st EXCEPT
                  !.session_history =
                     IF Len(appended) > MaxSessionHistory THEN Tail(appended) ELSE appended,
                  !.current_session = <<>>,
                  !.ended = Append(@, session)]
    IN change_state(st1, INTERACTION_COMPLETE, NoId)

\* StateManager.end_current_session
end_current_session(st, reason) ==
  IF st.current_session = <<>> THEN st
  ELSE
    LET session == [st.current_session[1] EXCEPT
                      !.metadata = [end_reason |-> reason,
                                    duration |-> duration(st.current_session[1], st.now)]]
        appended == Append(st.session_history, session)
        st1 == [st EXCEPT
                  !.session_history =
                     IF Len(appended) > MaxSessionHistory THEN Tail(appended) ELSE appended,
                  !.current_session = <<>>,
                  !.ended = Append(@, session)]
    IN change_state(st1, IDLE, NoId)

\* start_interaction without the "end the current session" step: the new
\* session overwrites the current one
start_interaction_overwrite(st, scenario, expected_modalities, timeout) ==
  LET session_id == st.next_id
      st2 == [st EXCEPT
                !.next_id = @ + 1,
                !.current_session =
                   <<InteractionSession(session_id, scenario, st.now,
                                        expected_modalities, timeout)>>]
  IN change_state(st2, WAITING_RESPONSE, session_id)

\* start_interaction that ends the current session with the default reason
start_interaction_manual(st, scenario, expected_modalities, timeout) ==
  LET st1 == IF st.current_session # <<>>
               THEN end_current_session(st, "manual") ELSE st
      session_id == st1.next_id
      st2 == [st1 EXCEPT
                !.next_id = @ + 1,
                !.current_session =
                   <<InteractionSession(session_id, scenario, st1.now,
                                        expected_modalities, timeout)>>]
  IN change_state(st2, WAITING_RESPONSE, session_id)

\* StateManager.start_interaction; the returned session_id is st.next_id
start_interaction(st, scenario, expected_modalities, timeout) ==
  LET st1 == IF st.current_session # <<>>
               THEN end_current_session(st, "new_session_started") ELSE st
      session_id == st1.next_id
      st2 == [st1 EXCEPT
                !.next_id = @ + 1,
                !.current_session =
                   <<InteractionSession(session_id, scenario, st1.now,
                                        expected_modalities, timeout)>>]
  IN change_state(st2, WAITING_RESPONSE, session_id)

\* add_event_to_session that opens a session for an event that finds none
add_event_to_session_opening(st, event) ==
  IF st.current_session = <<>>
    THEN [start_interaction(st, DISTRACTION_ALERT, {AUDIO, GESTURE}, DefaultTimeout)
            EXCEPT !.current_session[1].received_events = <<event>>]
  ELSE IF is_expired(st.current_session[1], st.now)
    THEN end_current_session(st, "timeout")
  ELSE [st EXCEPT !.current_session[1].received_events = Append(@, event)]

\* add_event_to_session that restarts the session's clock at every event
add_event_to_session_extending(st, event) ==
  IF st.current_session = <<>> THEN st
  ELSE IF is_expired(st.current_session[1], st.now)
    THEN end_current_session(st, "timeout")
  ELSE [st EXCEPT !.current_session[1].received_events = Append(@, event),
                  !.current_session[1].start_time = st.now]

\* StateManager.add_event_to_session: the state it leaves
add_event_to_session(st, event) ==
  IF st.current_session = <<>> THEN st
  ELSE IF is_expired(st.current_session[1], st.now)
    THEN end_current_session(st, "timeout")
  ELSE [st EXCEPT !.current_session[1].received_events = Append(@, event)]

\* StateManager.add_event_to_session: the value it returns
add_event_to_session_result(st, event) ==
  IF st.current_session = <<>> THEN FALSE
  ELSE IF is_expired(st.current_session[1], st.now) THEN FALSE
  ELSE TRUE

\* get_current_session_info that ends a session it finds expired
get_current_session_info_expiring(st) ==
  IF st.current_session # <<>> /\ is_expired(st.current_session[1], st.now)
    THEN [st |-> end_current_session(st, "timeout"), ret |-> <<>>]
    ELSE [st |-> st, ret |-> <<>>]

\* StateManager.get_current_session_info at time st.now: st is the state it
\* leaves, ret what it returns, <<>> for None and <<dict>> for a dict
get_current_session_info(st) ==
  IF st.current_session = <<>> THEN [st |-> st, ret |-> <<>>]
  ELSE
    LET session == st.current_session[1] IN
    [st |-> st,
     ret |-> <<[session_id |-> session.session_id,
              scenario |-> session.scenario,
              state |-> session.state,
              duration |-> duration(session, st.now),
              timeout |-> session.timeout,
              is_expired |-> is_expired(session, st.now),
              expected_modalities |-> session.expected_modalities,
              received_modalities |->
                 {session.received_events[i].modality :
                    i \in 1..Len(session.received_events)},
              events_count |-> Len(session.received_events)]>>]

\* StateManager.get_session_stats at time st.now; the two quotients are
\* kept as fractions
get_session_stats(st) ==
  IF st.session_history = <<>> THEN [st |-> st, ret |-> [total_sessions |-> 0]]
  ELSE
    LET history == st.session_history
        total_sessions == Len(history)
        completed_sessions ==
          Cardinality({i \in 1..total_sessions :
                         history[i].metadata.end_reason = "completed"})
        timeout_sessions ==
          Cardinality({i \in 1..total_sessions :
                         history[i].metadata.end_reason = "timeout"})
        durations == [i \in 1..total_sessions |-> duration(history[i], st.now)]
    IN [st |-> st,
        ret |-> [total_sessions |-> total_sessions,
                 completed_sessions |-> completed_sessions,
                 timeout_sessions |-> timeout_sessions,
                 completion_rate |-> [num |-> completed_sessions, den |-> total_sessions],
                 avg_duration |-> [num |-> SumSeq(durations), den |-> total_sessions]]]

(***************************** rule_fusion.py ******************************)
\* one FusionRule; modality_weights in tenths
FusionRule(required, optional, time_window, strategy, weights, priority_order) ==
  [required_modalities |-> required, optional_modalities |-> optional,
   time_window |-> time_window, fusion_strategy |-> strategy,
   modality_weights |-> weights, priority_order |-> priority_order]

\* RuleFusionEngine._initialize_rules
_initialize_rules ==
  [scenario \in {DISTRACTION_ALERT, VOICE_COMMAND, GESTURE_CONTROL} |->
     CASE scenario = DISTRACTION_ALERT ->
            FusionRule({GAZE}, {AUDIO, GESTURE}, 10, PRIORITY_BASED,
                       [m \in {GAZE, AUDIO, GESTURE} |->
                          CASE m = GAZE -> 4 [] m = AUDIO -> 4 [] m = GESTURE -> 2],
                       <<AUDIO, GESTURE, GAZE>>)
       [] scenario = VOICE_COMMAND ->
            FusionRule({AUDIO}, {GESTURE, GAZE}, 5, CONFIDENCE_WEIGHTED,
                       [m \in {GAZE, AUDIO, GESTURE} |->
                          CASE m = AUDIO -> 6 [] m = GESTURE -> 3 [] m = GAZE -> 1],
                       <<AUDIO, GESTURE, GAZE>>)
       [] scenario = GESTURE_CONTROL ->
            FusionRule({GESTURE}, {GAZE, AUDIO}, 3, MAJORITY_VOTE,
                       [m \in {GAZE, AUDIO, GESTURE} |->
                          CASE m = GESTURE -> 5 [] m = GAZE -> 3 [] m = AUDIO -> 2],
                       <<GESTURE, GAZE, AUDIO>>)]

\* rule.modality_weights.get(modality, 1.0), in tenths
weight_of(rule, modality) ==
  IF modality \in DOMAIN rule.modality_weights
    THEN rule.modality_weights[modality] ELSE 10

\* RuleFusionEngine._extract_intent_from_event
_extract_intent_from_event(event) ==
  IF event.modality = AUDIO THEN
    (IF event.data.intent # None THEN event.data.intent ELSE event.data.response_type)
  ELSE IF event.modality = GESTURE THEN
    (IF event.data.gesture \in {"thumbs_up", "ok"} THEN "confirm"
     ELSE IF event.data.gesture \in {"thumbs_down", "stop"} THEN "reject"
     ELSE IF event.data.gesture \in {"wave"} THEN "attention"
     ELSE None)
  ELSE IF event.modality = GAZE THEN
    (IF event.data.state = "center" THEN "attention"
     ELSE IF event.data.state \in {"left", "right"} THEN "distraction"
     ELSE None)
  ELSE None

\* _get_session_events_in_window with < for <=
_get_session_events_in_window_strict(session, time_window, t) ==
  LET InWindow(event) == t - event.timestamp < time_window
  IN SelectSeq(session.received_events, InWindow)

\* RuleFusionEngine._get_session_events_in_window at time t
_get_session_events_in_window(session, time_window, t) ==
  LET InWindow(event) == t - event.timestamp <= time_window
  IN SelectSeq(session.received_events, InWindow)

\* _can_perform_fusion without the test of the optional modalities
_can_perform_fusion_required_only(events, rule) ==
  LET received_modalities == {events[i].modality : i \in 1..Len(events)} IN
  rule.required_modalities \subseteq received_modalities

\* RuleFusionEngine._can_perform_fusion
_can_perform_fusion(events, rule) ==
  LET received_modalities == {events[i].modality : i \in 1..Len(events)} IN
  IF ~(rule.required_modalities \subseteq received_modalities) THEN FALSE
  ELSE IF rule.optional_modalities # {}
          /\ rule.optional_modalities \cap received_modalities = {} THEN FALSE
  ELSE TRUE

\* the initial fusion_result of _perform_fusion; a confidence is the
\* fraction num/den; events records the list the strategy was given
InitialFusionResult(events, rule, t) ==
  [strategy |-> rule.fusion_strategy, events_count |-> Len(events),
   modalities |-> {events[i].modality : i \in 1..Len(events)},
   timestamp |-> t, confidence |-> [num |-> 0, den |-> 1], decision |-> None,
   events |-> events]

\* max(seq, key) that returns the last maximal element
LastMaxIndex(keys) ==
  CHOOSE i \in 1..Len(keys) :
    /\ \A j \in 1..Len(keys) : ~FracLess(keys[i], keys[j])
    /\ \A j \in (i + 1)..Len(keys) : FracLess(keys[j], keys[i])

\* Python's max(seq, key): the index of the first maximal element; the
\* keys are fractions
FirstMaxIndex(keys) ==
  CHOOSE i \in 1..Len(keys) :
    /\ \A j \in 1..Len(keys) : ~FracLess(keys[i], keys[j])
    /\ \A j \in 1..(i - 1) : FracLess(keys[j], keys[i])

\* the intent labels of the events in order of first occurrence: the
\* insertion order of the dicts weighted_scores and intent_votes
RECURSIVE IntentLabels(_)
IntentLabels(events) ==
  IF events = <<>> THEN <<>>
  ELSE LET front == IntentLabels(SubSeq(events, 1, Len(events) - 1))
           intent == _extract_intent_from_event(events[Len(events)])
       IN IF intent = None \/ intent \in Range(front) THEN front
          ELSE Append(front, intent)

RECURSIVE CommonDen(_)
CommonDen(events) ==
  IF events = <<>> THEN 1
  ELSE Lcm(events[1].confidence.den, CommonDen(Tail(events)))

\* _confidence_weighted_fusion without the division by total_weight (the
\* weights are tenths)
_confidence_weighted_fusion_unnormalized(events, rule, result) ==
  LET labels == IntentLabels(events)
      Labelled(event) == _extract_intent_from_event(event) # None
      labelled == SelectSeq(events, Labelled)
      total_weight == SumSeq([i \in 1..Len(labelled) |->
                                 weight_of(rule, labelled[i].modality)])
      den == CommonDen(labelled)
      score(intent) ==
        SumSeq([i \in 1..Len(labelled) |->
                  IF _extract_intent_from_event(labelled[i]) = intent
                    THEN weight_of(rule, labelled[i].modality)
                         * labelled[i].confidence.num
                         * (den \div labelled[i].confidence.den)
                    ELSE 0])
      scores == [i \in 1..Len(labels) |-> [num |-> score(labels[i]), den |-> den * 10]]
  IN IF labels # <<>> /\ total_weight > 0
       THEN LET best == FirstMaxIndex(scores) IN
            [result EXCEPT !.decision = labels[best],
                           !.confidence = scores[best]]
       ELSE result

\* _confidence_weighted_fusion that adds the weight of every event to
\* total_weight, also of one without an intent
_confidence_weighted_fusion_all_weights(events, rule, result) ==
  LET labels == IntentLabels(events)
      Labelled(event) == _extract_intent_from_event(event) # None
      labelled == SelectSeq(events, Labelled)
      total_weight == SumSeq([i \in 1..Len(events) |->
                                 weight_of(rule, events[i].modality)])
      den == CommonDen(labelled)
      score(intent) ==
        SumSeq([i \in 1..Len(labelled) |->
                  IF _extract_intent_from_event(labelled[i]) = intent
                    THEN weight_of(rule, labelled[i].modality)
                         * labelled[i].confidence.num
                         * (den \div labelled[i].confidence.den)
                    ELSE 0])
      scores == [i \in 1..Len(labels) |->
                   [num |-> score(labels[i]), den |-> den * total_weight]]
  IN IF labels # <<>> /\ total_weight > 0
       THEN LET best == FirstMaxIndex(scores) IN
            [result EXCEPT !.decision = labels[best],
                           !.confidence = scores[best]]
       ELSE result

\* RuleFusionEngine._confidence_weighted_fusion
_confidence_weighted_fusion(events, rule, result) ==
  LET labels == IntentLabels(events)
      Labelled(event) == _extract_intent_from_event(event) # None
      labelled == SelectSeq(events, Labelled)
      total_weight == SumSeq([i \in 1..Len(labelled) |->
                                 weight_of(rule, labelled[i].modality)])
      \* the common denominator of the confidences
      den == CommonDen(labelled)
      \* weighted_scores[intent] before the division by total_weight, times den
      score(intent) ==
        SumSeq([i \in 1..Len(labelled) |->
                  IF _extract_intent_from_event(labelled[i]) = intent
                    THEN weight_of(rule, labelled[i].modality)
                         * labelled[i].confidence.num
                         * (den \div labelled[i].confidence.den)
                    ELSE 0])
      scores == [i \in 1..Len(labels) |->
                   [num |-> score(labels[i]), den |-> den * total_weight]]
  IN IF labels # <<>> /\ total_weight > 0
       THEN LET best == FirstMaxIndex(scores) IN
            [result EXCEPT !.decision = labels[best],
                           !.confidence = scores[best]]
       ELSE result

\* the body of the loop over rule.priority_order in _priority_based_fusion,
\* from position k on
RECURSIVE PriorityLoop(_, _, _, _)
PriorityLoop(events, rule, result, k) ==
  IF k > Len(rule.priority_order) THEN result
  ELSE
    LET modality == rule.priority_order[k]
        OfModality(event) == event.modality = modality
        priority_events == SelectSeq(events, OfModality)
    IN IF priority_events = <<>> THEN PriorityLoop(events, rule, result, k + 1)
       ELSE
         LET best_event ==
               priority_events[FirstMaxIndex([i \in 1..Len(priority_events) |->
                                                priority_events[i].confidence])]
             intent == _extract_intent_from_event(best_event)
         IN IF intent # None
              THEN [result EXCEPT !.decision = intent,
                                  !.confidence = best_event.confidence]
              ELSE PriorityLoop(events, rule, result, k + 1)

\* RuleFusionEngine._priority_based_fusion
_priority_based_fusion(events, rule, result) ==
  PriorityLoop(events, rule, result, 1)

\* _majority_vote_fusion that takes for total_votes the number of events
\* that voted
_majority_vote_fusion_voters_only(events, rule, result) ==
  LET labels == IntentLabels(events)
      votes(intent) ==
        Cardinality({i \in 1..Len(events) :
                       _extract_intent_from_event(events[i]) = intent})
      voters == Cardinality({i \in 1..Len(events) :
                               _extract_intent_from_event(events[i]) # None})
      counts == [i \in 1..Len(labels) |->
                   [num |-> votes(labels[i]), den |-> voters]]
  IN IF labels # <<>>
       THEN LET best == FirstMaxIndex(counts) IN
            [result EXCEPT !.decision = labels[best],
                           !.confidence = counts[best]]
       ELSE result

\* RuleFusionEngine._majority_vote_fusion
_majority_vote_fusion(events, rule, result) ==
  LET labels == IntentLabels(events)
      votes(intent) ==
        Cardinality({i \in 1..Len(events) :
                       _extract_intent_from_event(events[i]) = intent})
      counts == [i \in 1..Len(labels) |->
                   [num |-> votes(labels[i]), den |-> Len(events)]]
  IN IF labels # <<>>
       THEN LET best == FirstMaxIndex(counts) IN
            [result EXCEPT !.decision = labels[best],
                           !.confidence = counts[best]]
       ELSE result

\* RuleFusionEngine._perform_fusion at time t
_perform_fusion(events, rule, t) ==
  LET fusion_result == InitialFusionResult(events, rule, t) IN
  IF rule.fusion_strategy = CONFIDENCE_WEIGHTED
    THEN _confidence_weighted_fusion(events, rule, fusion_result)
  ELSE IF rule.fusion_strategy = PRIORITY_BASED
    THEN _priority_based_fusion(events, rule, fusion_result)
  ELSE IF rule.fusion_strategy = MAJORITY_VOTE
    THEN _majority_vote_fusion(events, rule, fusion_result)
  ELSE fusion_result

\* the handlers publish events themselves
RECURSIVE publish(_, _)

\* _handle_fusion_result that publishes ATTENTION_CONFIRMED and leaves the
\* session open
\* variant: the session is ended before the confirmation is published
_handle_fusion_result_end_first(st, fusion_result, session) ==
  LET decision == fusion_result.decision
      log_entry == [session_id |-> session.session_id, scenario |-> session.scenario,
                    fusion_result |-> fusion_result, timestamp |-> st.now]
      st1 == [st EXCEPT !.interaction_log = Append(@, log_entry),
                        !.logged = Append(@, log_entry)]
      attention_event ==
        ModalityEvent(ATTENTION_CONFIRMED, VISION, st.now, fusion_result.confidence,
                      [NoData EXCEPT !.decision = decision], session.session_id)
  IN IF decision = "confirm" \/ decision = "attention"
       THEN publish(end_current_session(st1, "attention_confirmed"), attention_event)
       ELSE st1

_handle_fusion_result_no_end(st, fusion_result, session) ==
  LET decision == fusion_result.decision
      log_entry == [session_id |-> session.session_id, scenario |-> session.scenario,
                    fusion_result |-> fusion_result, timestamp |-> st.now]
      st1 == [st EXCEPT !.interaction_log = Append(@, log_entry),
                        !.logged = Append(@, log_entry)]
      attention_event ==
        ModalityEvent(ATTENTION_CONFIRMED, VISION, st.now, fusion_result.confidence,
                      [NoData EXCEPT !.decision = decision], session.session_id)
  IN IF decision = "confirm" \/ decision = "attention"
       THEN publish(st1, attention_event) ELSE st1

\* _handle_fusion_result that cuts the full log to MaxInteractionLog entries
_handle_fusion_result_keep_max(st, fusion_result, session) ==
  LET decision == fusion_result.decision
      confidence == fusion_result.confidence
      log_entry == [session_id |-> session.session_id, scenario |-> session.scenario,
                    fusion_result |-> fusion_result, timestamp |-> st.now]
      st1 == [st EXCEPT !.interaction_log = Append(@, log_entry),
                        !.logged = Append(@, log_entry)]
      attention_event ==
        ModalityEvent(ATTENTION_CONFIRMED, VISION, st.now, confidence,
                      [NoData EXCEPT !.decision = decision], session.session_id)
      st2 == IF decision = "confirm" \/ decision = "attention"
               THEN end_current_session(publish(st1, attention_event),
                                        "attention_confirmed")
               ELSE st1
  IN IF Len(st2.interaction_log) > MaxInteractionLog
       THEN [st2 EXCEPT !.interaction_log = LastN(@, MaxInteractionLog)]
       ELSE st2

\* RuleFusionEngine._handle_fusion_result
_handle_fusion_result(st, fusion_result, session) ==
  LET decision == fusion_result.decision
      confidence == fusion_result.confidence
      log_entry == [session_id |-> session.session_id, scenario |-> session.scenario,
                    fusion_result |-> fusion_result, timestamp |-> st.now]
      st1 == [st EXCEPT !.interaction_log = Append(@, log_entry),
                        !.logged = Append(@, log_entry)]
      attention_event ==
        ModalityEvent(ATTENTION_CONFIRMED, VISION, st.now, confidence,
                      [NoData EXCEPT !.decision = decision], session.session_id)
      st2 == IF decision = "confirm" \/ decision = "attention"
               THEN end_current_session(publish(st1, attention_event),
                                        "attention_confirmed")
               ELSE st1
  IN IF Len(st2.interaction_log) > MaxInteractionLog
       THEN [st2 EXCEPT !.interaction_log = LastN(@, KeepInteractionLog)]
       ELSE st2

\* _check_fusion_completion that takes the distraction-alert rule for a
\* scenario that has none
_check_fusion_completion_default_rule(st) ==
  IF st.current_session = <<>> THEN st
  ELSE
    LET session == st.current_session[1]
        rule == IF session.scenario \in DOMAIN st.fusion_rules
                  THEN st.fusion_rules[session.scenario]
                  ELSE _initialize_rules[DISTRACTION_ALERT]
        recent_events == _get_session_events_in_window(session, rule.time_window, st.now)
    IN IF _can_perform_fusion(recent_events, rule)
         THEN _handle_fusion_result(st, _perform_fusion(recent_events, rule, st.now),
                                    session)
         ELSE st

\* RuleFusionEngine._check_fusion_completion
_check_fusion_completion(st) ==
  IF st.current_session = <<>> THEN st
  ELSE
    LET session == st.current_session[1] IN
    IF session.scenario \notin DOMAIN st.fusion_rules THEN st
    ELSE
      LET rule == st.fusion_rules[session.scenario]
          recent_events == _get_session_events_in_window(session, rule.time_window, st.now)
      IN IF _can_perform_fusion(recent_events, rule)
           THEN _handle_fusion_result(st, _perform_fusion(recent_events, rule, st.now),
                                      session)
           ELSE st

\* RuleFusionEngine.get_fusion_stats; success_rate is kept as a fraction
get_fusion_stats(st) ==
  IF st.interaction_log = <<>> THEN [st |-> st, ret |-> [total_fusions |-> 0]]
  ELSE
    LET log == st.interaction_log
        total_fusions == Len(log)
        successful_fusions ==
          Cardinality({i \in 1..total_fusions : log[i].fusion_result.decision # None})
        scenarios == {log[i].scenario : i \in 1..total_fusions}
        strategies == {log[i].fusion_result.strategy : i \in 1..total_fusions}
    IN [st |-> st,
        ret |-> [total_fusions |-> total_fusions,
                 successful_fusions |-> successful_fusions,
                 success_rate |-> [num |-> successful_fusions, den |-> total_fusions],
                 scenario_stats |->
                    [s \in scenarios |->
                       Cardinality({i \in 1..total_fusions : log[i].scenario = s})],
                 strategy_stats |->
                    [s \in strategies |->
                       Cardinality({i \in 1..total_fusions :
                                      log[i].fusion_result.strategy = s})]]]

\* _trigger_distraction_scenario without the test of current_state
_trigger_distraction_scenario_unguarded(st, trigger_event) ==
  LET session_id == st.next_id
      st1 == start_interaction(st, DISTRACTION_ALERT, {AUDIO, GESTURE},
                               DistractionTimeout)
      distraction_event ==
        ModalityEvent(DISTRACTION_DETECTED, VISION, st.now, trigger_event.confidence,
                      [NoData EXCEPT !.gaze_state = trigger_event.data.state],
                      session_id)
  IN publish(st1, distraction_event)

\* RuleFusionEngine._trigger_distraction_scenario
_trigger_distraction_scenario(st, trigger_event) ==
  IF st.current_state # IDLE THEN st
  ELSE
    LET session_id == st.next_id
        st1 == start_interaction(st, DISTRACTION_ALERT, {AUDIO, GESTURE},
                                 DistractionTimeout)
        distraction_event ==
          ModalityEvent(DISTRACTION_DETECTED, VISION, st.now, trigger_event.confidence,
                        [NoData EXCEPT !.gaze_state = trigger_event.data.state],
                        session_id)
    IN publish(st1, distraction_event)

\* _handle_gaze_event that takes only "left" for a deviation
_handle_gaze_event_left_only(st, event) ==
  LET st1 == IF event.data.state \in {"left"}
               THEN _trigger_distraction_scenario(st, event) ELSE st
  IN _check_fusion_completion(add_event_to_session(st1, event))

\* _handle_gaze_event that adds the event to the session before it looks
\* for a deviation
_handle_gaze_event_add_first(st, event) ==
  LET st1 == add_event_to_session(st, event)
      st2 == IF event.data.state \in {"left", "right"}
               THEN _trigger_distraction_scenario(st1, event) ELSE st1
  IN _check_fusion_completion(st2)

\* RuleFusionEngine._handle_gaze_event
_handle_gaze_event(st, event) ==
  LET st1 == IF event.data.state \in {"left", "right"}
               THEN _trigger_distraction_scenario(st, event) ELSE st
  IN _check_fusion_completion(add_event_to_session(st1, event))

\* a handler's write to event.data is a write to the object publish has
\* just appended to the bus history: the last entry when the handler starts
WriteEvent(st, event) ==
  [st EXCEPT !.event_history[Len(st.event_history)] = event]

\* RuleFusionEngine._handle_gesture_event
_handle_gesture_event(st, event) ==
  LET gesture == event.data.gesture
      written == IF gesture \in {"thumbs_up", "ok"}
                   THEN [event EXCEPT !.data.intent = "confirm"]
                 ELSE IF gesture \in {"thumbs_down", "stop"}
                   THEN [event EXCEPT !.data.intent = "reject"]
                 ELSE IF gesture \in {"wave"}
                   THEN [event EXCEPT !.data.intent = "attention"]
                 ELSE event
  IN _check_fusion_completion(add_event_to_session(WriteEvent(st, written), written))

\* RuleFusionEngine._handle_speech_event
_handle_speech_event(st, event) ==
  _check_fusion_completion(add_event_to_session(st, event))

\* RuleFusionEngine._handle_intent_event
_handle_intent_event(st, event) ==
  LET intent == event.data.intent
      written == IF intent \in {"attention_confirm", "road_focus"}
                   THEN [event EXCEPT !.data.response_type = "attention_confirmed"]
                 ELSE IF intent \in {"reject", "busy"}
                   THEN [event EXCEPT !.data.response_type = "attention_rejected"]
                 ELSE event
  IN _check_fusion_completion(add_event_to_session(WriteEvent(st, written), written))

\* RuleFusionEngine._handle_head_pose_event
_handle_head_pose_event(st, event) ==
  _check_fusion_completion(add_event_to_session(st, event))

(******************************* events.py *********************************)
\* EventBus.publish with the subscriptions made by RuleFusionEngine.__init__
\* and ScenarioHandler.__init__: one handler per event type
publish(st, event) ==
  LET appended == Append(st.event_history, event)
      st1 == [st EXCEPT !.event_history =
                IF Len(appended) > _max_history THEN Tail(appended) ELSE appended]
  IN CASE event.event_type = GAZE_CHANGED -> _handle_gaze_event(st1, event)
       [] event.event_type = GESTURE_DETECTED -> _handle_gesture_event(st1, event)
       [] event.event_type = SPEECH_RECOGNIZED -> _handle_speech_event(st1, event)
       [] event.event_type = INTENT_CLASSIFIED -> _handle_intent_event(st1, event)
       [] event.event_type = HEAD_POSE_CHANGED -> _handle_head_pose_event(st1, event)
       [] event.event_type = DISTRACTION_DETECTED -> _handle_distraction_detected(st1, event)
       [] event.event_type = ATTENTION_CONFIRMED ->
            \* what the callback is called with; when it raises, the except
            \* clause catches and publish returns
            LET found == [session_id |-> event.session_id,
                          current_session |-> st1.current_session,
                          current_state |-> st1.current_state]
                st2 == [st1 EXCEPT !.seen = Append(@, found)]
            IN IF st.raising THEN st2 ELSE _handle_attention_confirmed(st2, event)
       [] OTHER -> st1

(*************************** scenario_handler.py ***************************)
\* trigger_voice_command_scenario that starts the session and publishes no
\* seed event
trigger_voice_command_scenario_unseeded(st, command, confidence) ==
  start_interaction(st, VOICE_COMMAND, {AUDIO, GESTURE}, VoiceCommandTimeout)

\* ScenarioHandler.trigger_voice_command_scenario
trigger_voice_command_scenario(st, command, confidence) ==
  LET session_id == st.next_id
      st1 == start_interaction(st, VOICE_COMMAND, {AUDIO, GESTURE}, VoiceCommandTimeout)
      speech_event == ModalityEvent(SPEECH_RECOGNIZED, AUDIO, st.now, confidence,
                                    [NoData EXCEPT !.text = command], session_id)
  IN publish(st1, speech_event)

\* ScenarioHandler.trigger_gesture_control_scenario
trigger_gesture_control_scenario(st, gesture, confidence) ==
  LET session_id == st.next_id
      st1 == start_interaction(st, GESTURE_CONTROL, {GESTURE, GAZE}, GestureControlTimeout)
      gesture_event == ModalityEvent(GESTURE_DETECTED, GESTURE, st.now, confidence,
                                     [NoData EXCEPT !.gesture = gesture], session_id)
  IN publish(st1, gesture_event)

\* timeout_reminder as a watchdog: it ends the session it was scheduled for
timeout_reminder_watchdog(st, session_id) ==
  IF /\ st.current_session # <<>>
     /\ st.current_session[1].session_id = session_id
    THEN end_current_session(st, "timeout")
    ELSE st

\* the body of timeout_reminder in _schedule_timeout_reminder, after the sleep
\* variant: the reminder does not look at the session it was started for
timeout_reminder_unchecked(st, session_id) ==
  IF st.current_session # <<>> /\ st.current_state = WAITING_RESPONSE
    THEN _send_response(
           _send_response(st, SystemResponse(AUDIO, "timeout_reminder", session_id, st.now)),
           SystemResponse(VISUAL, "timeout_reminder", session_id, st.now))
    ELSE st

timeout_reminder(st, session_id) ==
  IF /\ st.current_session # <<>>
     /\ st.current_session[1].session_id = session_id
     /\ st.current_state = WAITING_RESPONSE
    THEN _send_response(
           _send_response(st, SystemResponse(AUDIO, "timeout_reminder", session_id, st.now)),
           SystemResponse(VISUAL, "timeout_reminder", session_id, st.now))
    ELSE st

\* the responses of the last 5 minutes count as recent in get_response_stats
RecentResponseWindow == 300

\* ScenarioHandler.get_response_stats at time st.now
get_response_stats(st) ==
  IF st.response_history = <<>> THEN [st |-> st, ret |-> [total_responses |-> 0]]
  ELSE
    LET history == st.response_history
        total_responses == Len(history)
        types == {history[i].response_type : i \in 1..total_responses}
    IN [st |-> st,
        ret |-> [total_responses |-> total_responses,
                 type_stats |->
                    [t \in types |->
                       Cardinality({i \in 1..total_responses :
                                      history[i].response_type = t})],
                 recent_responses |->
                    Cardinality({i \in 1..total_responses :
                                   st.now - history[i].timestamp < RecentResponseWindow})]]

(******************************* __init__.py *******************************)
\* get_system_status: the dict is built entry by entry, each getter on the
\* state the one before left; subscribers is event_bus._subscribers
get_system_status(st, subscribers) ==
  LET active_session == get_current_session_info(st)
      session_stats == get_session_stats(active_session.st)
      fusion_stats == get_fusion_stats(session_stats.st)
      response_stats == get_response_stats(fusion_stats.st)
  IN [st |-> response_stats.st,
      ret |-> [current_state |-> st.current_state,
               active_session |-> active_session.ret,
               session_stats |-> session_stats.ret,
               fusion_stats |-> fusion_stats.ret,
               response_stats |-> response_stats.ret,
               event_subscribers |-> Cardinality(DOMAIN subscribers),
               event_history_size |-> Len(response_stats.st.event_history)]]

(************************** inputs of the producers ************************)
\* gaze events: data["state"], one of the three values the gaze tracker
\* gives, and the modality the producer tags them with (ModalityType.GAZE, or
\* VISION when built with VisionEvent as app_multimodal.py and the tests do)
GazeStates == {"left", "right", "center"}
GazeModalities == {GAZE, VISION}
GazeInputs == GazeStates \X GazeModalities
\* gesture events: data["gesture"] and the confidence in percent
GestureInputs == {<<"thumbs_up", 80>>, <<"thumbs_down", 70>>, <<"ok", 60>>, <<"wave", 80>>}
\* intent events: data["intent"]
IntentInputs == {"attention_confirm", "reject"}

GazeEvent(state, modality, percent, t) ==
  ModalityEvent(GAZE_CHANGED, modality, t, Conf(percent),
                [NoData EXCEPT !.state = state], NoId)
GestureEvent(gesture, percent, t) ==
  ModalityEvent(GESTURE_DETECTED, GESTURE, t, Conf(percent),
                [NoData EXCEPT !.gesture = gesture], NoId)
IntentEvent(intent, percent, t) ==
  ModalityEvent(INTENT_CLASSIFIED, AUDIO, t, Conf(percent),
                [NoData EXCEPT !.intent = intent], NoId)
SpeechEvent(percent, t) ==
  ModalityEvent(SPEECH_RECOGNIZED, AUDIO, t, Conf(percent),
                [NoData EXCEPT !.text = "utterance"], NoId)
HeadPoseEvent(percent, t) ==
  ModalityEvent(HEAD_POSE_CHANGED, VISION, t, Conf(percent), NoData, NoId)

(******************************* the machine *******************************)
\* the fields of the four singletons and the clock, as the operators take them
State ==
  [now |-> now, current_state |-> current_state, current_session |-> current_session,
   session_history |-> session_history, next_id |-> next_id,
   event_history |-> event_history, interaction_log |-> interaction_log,
   response_history |-> response_history, reminders |-> reminders,
   ended |-> ended, sent |-> sent, logged |-> logged, entered |-> entered,
   fusion_rules |-> fusion_rules, seen |-> seen, raising |-> raising,
   scheduled |-> scheduled]

Apply(st) ==
  /\ now' = st.now
  /\ current_state' = st.current_state
  /\ current_session' = st.current_session
  /\ session_history' = st.session_history
  /\ next_id' = st.next_id
  /\ event_history' = st.event_history
  /\ interaction_log' = st.interaction_log
  /\ response_history' = st.response_history
  /\ reminders' = st.reminders
  /\ ended' = st.ended
  /\ sent' = st.sent
  /\ logged' = st.logged
  /\ entered' = st.entered
  /\ fusion_rules' = st.fusion_rules
  /\ seen' = st.seen
  /\ scheduled' = st.scheduled
  /\ raising' = st.raising

\* a producer call op(arg) that returned the session id id or the boolean ok
Returned(op, arg, id, ok) ==
  /\ calls' = calls + 1
  /\ last_call' = [op |-> op, arg |-> arg, id |-> id, ok |-> ok]
  /\ UNCHANGED <<test, fusvars, busvars, thrvars>>

\* the subscriptions made by RuleFusionEngine.__init__ and
\* ScenarioHandler.__init__, which publish above dispatches on
Subscriptions ==
  (GAZE_CHANGED :> <<"_handle_gaze_event">>) @@
  (GESTURE_DETECTED :> <<"_handle_gesture_event">>) @@
  (SPEECH_RECOGNIZED :> <<"_handle_speech_event">>) @@
  (INTENT_CLASSIFIED :> <<"_handle_intent_event">>) @@
  (HEAD_POSE_CHANGED :> <<"_handle_head_pose_event">>) @@
  (DISTRACTION_DETECTED :> <<"_handle_distraction_detected">>) @@
  (ATTENTION_CONFIRMED :> <<"_handle_attention_confirmed">>) @@
  (INTERACTION_COMPLETED :> <<"_handle_interaction_completed">>)

\* nothing has been observed on the bus alone
BusIdle ==
  /\ _subscribers = Subscriptions
  /\ invoked = <<>>
  /\ published = <<>>
  /\ last_recent_events = <<>>

\* the three lists have lost nothing yet, and change_state has not been
\* called since
NothingDropped ==
  /\ ended = session_history
  /\ sent = response_history
  /\ logged = interaction_log
  /\ entered = <<>>
  /\ seen = <<>>
  /\ scheduled = <<>>

\* _perform_fusion is called by _check_fusion_completion only
FusionIdle ==
  /\ pf_rule = <<>>
  /\ pf_events = <<>>
  /\ pf_result = <<>>

\* no producer thread is inside a publish and no reminder thread is awake
ThreadsIdle ==
  /\ threads = <<>>
  /\ timers = {}

Init ==
  /\ now = 0
  /\ current_state = IDLE
  /\ current_session = <<>>
  /\ session_history = <<>>
  /\ next_id = 1
  /\ event_history = <<>>
  /\ interaction_log = <<>>
  /\ response_history = <<>>
  /\ reminders = {}
  /\ calls = 0
  /\ last_call = [op |-> None, arg |-> <<>>, id |-> NoId, ok |-> FALSE]
  /\ test = None
  /\ BusIdle
  /\ ThreadsIdle
  /\ NothingDropped
  /\ raising = FALSE
  /\ fusion_rules = _initialize_rules
  /\ FusionIdle

\* time passes
Tick ==
  /\ now + TickStep <= MaxTime
  /\ now' = now + TickStep
  /\ UNCHANGED <<current_state, current_session, session_history, next_id,
                 event_history, interaction_log, response_history, reminders,
                 calls, last_call, test, fusvars, busvars, thrvars, histvars, fusion_rules,
                 raising>>

\* event_bus.publish(event) by a producer
Publish(event) ==
  /\ calls < MaxCalls
  /\ Apply(publish(State, event))
  /\ Returned("publish", <<event>>, NoId, FALSE)

PublishGaze == \E g \in GazeInputs : Publish(GazeEvent(g[1], g[2], 90, now))
PublishGesture == \E g \in GestureInputs : Publish(GestureEvent(g[1], g[2], now))
PublishIntent == \E i \in IntentInputs : Publish(IntentEvent(i, 80, now))
PublishSpeech == Publish(SpeechEvent(80, now))
PublishHeadPose == Publish(HeadPoseEvent(80, now))

\* scenario_handler.trigger_voice_command_scenario(command, 0.9)
TriggerVoiceCommand ==
  /\ calls < MaxCalls
  /\ Apply(trigger_voice_command_scenario(State, "command", Conf(90)))
  /\ Returned("trigger_voice_command_scenario", <<>>, next_id, FALSE)

\* scenario_handler.trigger_gesture_control_scenario("wave", 0.8)
TriggerGestureControl ==
  /\ calls < MaxCalls
  /\ Apply(trigger_gesture_control_scenario(State, "wave", Conf(80)))
  /\ Returned("trigger_gesture_control_scenario", <<>>, next_id, FALSE)

\* state_manager.start_interaction(DISTRACTION_ALERT, [AUDIO, GESTURE]) with
\* the default timeout
StartInteraction ==
  /\ calls < MaxCalls
  /\ Apply(start_interaction(State, DISTRACTION_ALERT, {AUDIO, GESTURE}, DefaultTimeout))
  /\ Returned("start_interaction", <<>>, next_id, FALSE)

\* state_manager.add_event_to_session(event) called directly
AddEventToSession ==
  LET event == SpeechEvent(80, now) IN
  /\ calls < MaxCalls
  /\ Apply(add_event_to_session(State, event))
  /\ Returned("add_event_to_session", <<event>>, NoId,
              add_event_to_session_result(State, event))

\* state_manager.end_current_session() with the default reason
EndCurrentSession ==
  /\ calls < MaxCalls
  /\ Apply(end_current_session(State, "manual"))
  /\ Returned("end_current_session", <<>>, NoId, FALSE)

\* get_system_status() called by a dashboard or a test
GetSystemStatus ==
  LET status == get_system_status(State, _subscribers) IN
  /\ calls < MaxCalls
  /\ Apply(status.st)
  /\ Returned("get_system_status", <<status.ret>>, NoId, TRUE)

\* a timeout_reminder thread wakes up after its sleep and runs
ReminderFire ==
  \E r \in reminders :
    /\ now >= r.due
    /\ Apply([timeout_reminder(State, r.session_id) EXCEPT !.reminders = @ \ {r}])
    /\ UNCHANGED <<calls, last_call, test, fusvars, busvars, thrvars>>

Next ==
  \/ Tick
  \/ PublishGaze
  \/ PublishGesture
  \/ PublishIntent
  \/ PublishSpeech
  \/ PublishHeadPose
  \/ TriggerVoiceCommand
  \/ TriggerGestureControl
  \/ StartInteraction
  \/ AddEventToSession
  \/ EndCurrentSession
  \/ ReminderFire
  \/ GetSystemStatus

Spec == Init /\ [][Next]_vars

(************************ test_multimodal_fusion.py ************************)
\* the events the scenario tests publish, in order; the first two are the
\* tests as written (gaze events built with VisionEvent), the last two the
\* same scenarios with gaze events of modality GAZE
TestScripts ==
  [name \in {"test_distraction_alert_scenario", "test_conflict_resolution",
             "scenario_a", "scenario_b"} |->
     CASE name = "test_distraction_alert_scenario" ->
            <<<<"gaze", "left", VISION, 90>>, <<"speech", None, None, 80>>,
              <<"intent", "attention_confirm", None, 90>>,
              <<"gesture", "thumbs_up", None, 80>>>>
       [] name = "test_conflict_resolution" ->
            <<<<"gaze", "right", VISION, 90>>,
              <<"intent", "attention_confirm", None, 80>>,
              <<"gesture", "thumbs_down", None, 70>>>>
       [] name = "scenario_a" ->
            <<<<"gaze", "left", GAZE, 90>>,
              <<"intent", "attention_confirm", None, 80>>,
              <<"gesture", "thumbs_up", None, 80>>>>
       [] name = "scenario_b" ->
            <<<<"gaze", "right", GAZE, 90>>,
              <<"intent", "attention_confirm", None, 80>>,
              <<"gesture", "thumbs_down", None, 70>>>>]

\* the event a test builds for a step of its script, at time t
StepEvent(step, t) ==
  CASE step[1] = "gaze" -> GazeEvent(step[2], step[3], step[4], t)
    [] step[1] = "speech" -> SpeechEvent(step[4], t)
    [] step[1] = "intent" -> IntentEvent(step[2], step[4], t)
    [] step[1] = "gesture" -> GestureEvent(step[2], step[4], t)

\* setUp: a test starts with no session and empty histories
TestInit ==
  /\ now = 0
  /\ current_state = IDLE
  /\ current_session = <<>>
  /\ session_history = <<>>
  /\ next_id = 1
  /\ event_history = <<>>
  /\ interaction_log = <<>>
  /\ response_history = <<>>
  /\ reminders = {}
  /\ calls = 0
  /\ last_call = [op |-> None, arg |-> <<>>, id |-> NoId, ok |-> FALSE]
  /\ test \in DOMAIN TestScripts
  /\ BusIdle
  /\ ThreadsIdle
  /\ NothingDropped
  /\ raising = FALSE
  /\ fusion_rules = _initialize_rules
  /\ FusionIdle

\* the test publishes the next event of its script
TestPublish ==
  /\ test \in DOMAIN TestScripts
  /\ calls < Len(TestScripts[test])
  /\ LET event == StepEvent(TestScripts[test][calls + 1], now) IN
       /\ Apply(publish(State, event))
       /\ Returned("publish", <<event>>, NoId, FALSE)

TestNext ==
  \/ Tick
  \/ TestPublish
  \/ ReminderFire

TestSpec == TestInit /\ [][TestNext]_vars

(************************ events.py: the bus alone *************************)
\* the number of calls made on the bus, and how long the bus is observed
MaxBusCalls == 3
MaxBusTime == 10

\* the default time_window of get_recent_events
DefaultTimeWindow == 5

\* the callbacks of the client that raise when called
RaisingCallbacks == {"b"}
\* the subscriptions the client makes: event type and callback
BusSubscriptions ==
  {<<GAZE_CHANGED, "a">>, <<GAZE_CHANGED, "b">>, <<GESTURE_DETECTED, "a">>}
\* the events the client publishes: the event type and how long before the
\* publish the event was made (its timestamp is taken when it is made)
BusPublications ==
  {<<GAZE_CHANGED, 0>>, <<GAZE_CHANGED, TickStep>>, <<GESTURE_DETECTED, 0>>}
\* the filters the client passes to get_recent_events: event_type, modality
BusFilters == {<<None, None>>, <<GAZE_CHANGED, None>>, <<None, GESTURE>>}
\* the modality of the events of a type
BusModality(event_type) == IF event_type = GAZE_CHANGED THEN VISION ELSE GESTURE

\* EventBus.subscribe
subscribe(subscribers, event_type, callback) ==
  IF event_type \in DOMAIN subscribers
    THEN [subscribers EXCEPT ![event_type] = Append(@, callback)]
    ELSE subscribers @@ (event_type :> <<callback>>)

\* EventBus.publish, the loop over the callbacks: each call is recorded with
\* whether the event was in the history when it ran and whether it raised
\* (the except clause prints and the loop goes on)
RECURSIVE NotifySubscribers(_, _, _, _)
NotifySubscribers(callbacks, event, history, done) ==
  IF callbacks = <<>> THEN done
  ELSE NotifySubscribers(
         Tail(callbacks), event, history,
         Append(done, [callback |-> Head(callbacks), event |-> event,
                       recorded |-> history # <<>> /\ history[Len(history)] = event,
                       raised |-> Head(callbacks) \in RaisingCallbacks]))

\* the loop without the try/except: the first exception ends it
RECURSIVE NotifyUntilRaise(_, _, _, _)
NotifyUntilRaise(callbacks, event, history, done) ==
  IF callbacks = <<>> THEN done
  ELSE LET call == [callback |-> Head(callbacks), event |-> event,
                    recorded |-> history # <<>> /\ history[Len(history)] = event,
                    raised |-> Head(callbacks) \in RaisingCallbacks]
       IN IF call.raised THEN Append(done, call)
          ELSE NotifyUntilRaise(Tail(callbacks), event, history, Append(done, call))

\* the callbacks subscribed to an event type
SubscribedTo(subscribers, event_type) ==
  IF event_type \in DOMAIN subscribers THEN subscribers[event_type] ELSE <<>>

\* publish that notifies the callbacks before it records the event
EventBus_publish_notify_first(history, subscribers, event) ==
  LET appended == Append(history, event)
      history1 == IF Len(appended) > _max_history THEN Tail(appended) ELSE appended
  IN [history |-> history1,
      invoked |-> NotifySubscribers(SubscribedTo(subscribers, event.event_type),
                                    event, history, <<>>),
      returned |-> TRUE]

\* publish without the try/except around the callback
EventBus_publish_no_except(history, subscribers, event) ==
  LET appended == Append(history, event)
      history1 == IF Len(appended) > _max_history THEN Tail(appended) ELSE appended
      calls_made == NotifyUntilRaise(SubscribedTo(subscribers, event.event_type),
                                     event, history1, <<>>)
  IN [history |-> history1, invoked |-> calls_made,
      returned |-> \A i \in 1..Len(calls_made) : ~calls_made[i].raised]

\* publish that drops the newest event when the history is full
EventBus_publish_drop_newest(history, subscribers, event) ==
  LET appended == Append(history, event)
      history1 == IF Len(appended) > _max_history
                    THEN SubSeq(appended, 1, _max_history) ELSE appended
  IN [history |-> history1,
      invoked |-> NotifySubscribers(SubscribedTo(subscribers, event.event_type),
                                    event, appended, <<>>),
      returned |-> TRUE]

\* EventBus.publish for any subscriptions: the history it leaves, the calls
\* of callbacks it made and whether it returned to its caller
EventBus_publish(history, subscribers, event) ==
  LET appended == Append(history, event)
      history1 == IF Len(appended) > _max_history THEN Tail(appended) ELSE appended
  IN [history |-> history1,
      invoked |-> NotifySubscribers(SubscribedTo(subscribers, event.event_type),
                                    event, history1, <<>>),
      returned |-> TRUE]

\* EventBus.get_recent_events, where its loop over reversed(_event_history)
\* breaks: the index in lo..hi of the last event older than the window, 0 if
\* there is none (found by halving, the history being up to _max_history long)
RECURSIVE LastTooOld(_, _, _, _, _)
LastTooOld(history, lo, hi, time_window, t) ==
  IF lo > hi THEN 0
  ELSE IF lo = hi
    THEN IF t - history[lo].timestamp > time_window THEN lo ELSE 0
  ELSE LET mid == (lo + hi) \div 2
           later == LastTooOld(history, mid + 1, hi, time_window, t)
       IN IF later # 0 THEN later
          ELSE LastTooOld(history, lo, mid, time_window, t)

\* EventBus.get_recent_events at time t: the events after the break that
\* pass the two filters, in the order of the history
\* (list(reversed(recent_events)))
get_recent_events(history, event_type, modality, time_window, t) ==
  LET break == LastTooOld(history, 1, Len(history), time_window, t)
      Passes(event) ==
        /\ ~(event_type # None /\ event.event_type # event_type)
        /\ ~(modality # None /\ event.modality # modality)
  IN SelectSeq(SubSeq(history, break + 1, Len(history)), Passes)

\* a history of _max_history - 1 events published at time 0
FullButOne ==
  [i \in 1..(_max_history - 1) |->
     ModalityEvent(HEAD_POSE_CHANGED, VISION, 0, Conf(80), NoData, NoId)]

\* a new EventBus, or one that has had _max_history - 1 events published
BusInit ==
  /\ now = 0
  /\ current_state = IDLE
  /\ current_session = <<>>
  /\ session_history = <<>>
  /\ next_id = 1
  /\ event_history \in {<<>>, FullButOne}
  /\ interaction_log = <<>>
  /\ response_history = <<>>
  /\ reminders = {}
  /\ calls = 0
  /\ last_call = [op |-> None, arg |-> <<>>, id |-> NoId, ok |-> FALSE]
  /\ test = None
  /\ _subscribers = <<>>
  /\ invoked = <<>>
  /\ published = event_history
  /\ last_recent_events = <<>>
  /\ ThreadsIdle
  /\ NothingDropped
  /\ raising = FALSE
  /\ fusion_rules = _initialize_rules
  /\ FusionIdle

\* what a call on the bus leaves alone
BusFrame ==
  UNCHANGED <<now, current_state, current_session, session_history, next_id,
              interaction_log, response_history, reminders, test, fusvars, thrvars,
              histvars, fusion_rules, raising>>

\* event_bus.subscribe(event_type, callback)
BusSubscribe ==
  \E s \in BusSubscriptions :
    /\ calls < MaxBusCalls
    /\ _subscribers' = subscribe(_subscribers, s[1], s[2])
    /\ calls' = calls + 1
    /\ last_call' = [op |-> "subscribe", arg |-> s, id |-> NoId, ok |-> TRUE]
    /\ UNCHANGED <<event_history, invoked, published, last_recent_events>>
    /\ BusFrame

\* event_bus.publish(event) of an event made now or one clock step ago
BusPublish ==
  \E p \in BusPublications :
    LET timestamp == now - p[2]
        event == ModalityEvent(p[1], BusModality(p[1]), timestamp,
                               Conf(90), NoData, NoId)
        result == EventBus_publish(event_history, _subscribers, event)
    IN /\ calls < MaxBusCalls
       /\ timestamp >= 0
       /\ event_history' = result.history
       /\ invoked' = result.invoked
       /\ published' = Append(published, event)
       /\ calls' = calls + 1
       /\ last_call' = [op |-> "publish", arg |-> <<event>>, id |-> NoId,
                        ok |-> result.returned]
       /\ UNCHANGED <<_subscribers, last_recent_events>>
       /\ BusFrame

\* event_bus.get_recent_events(event_type, modality) with the default window
BusGetRecentEvents ==
  \E f \in BusFilters :
    /\ calls < MaxBusCalls
    /\ last_recent_events' =
         <<[event_type |-> f[1], modality |-> f[2],
            time_window |-> DefaultTimeWindow,
            result |-> get_recent_events(event_history, f[1], f[2],
                                         DefaultTimeWindow, now)]>>
    /\ calls' = calls + 1
    /\ last_call' = [op |-> "get_recent_events", arg |-> <<>>, id |-> NoId, ok |-> TRUE]
    /\ UNCHANGED <<event_history, _subscribers, invoked, published>>
    /\ BusFrame

\* time passes
BusTick ==
  /\ now + TickStep <= MaxBusTime
  /\ now' = now + TickStep
  /\ UNCHANGED <<current_state, current_session, session_history, next_id,
                 event_history, interaction_log, response_history, reminders,
                 calls, last_call, test, fusvars, busvars, thrvars, histvars, fusion_rules,
                 raising>>

BusNext ==
  \/ BusTick
  \/ BusSubscribe
  \/ BusPublish
  \/ BusGetRecentEvents

BusSpec == BusInit /\ [][BusNext]_vars

(******************* the producers as concurrent threads *******************)
\* There is no lock in state_manager.py, events.py or rule_fusion.py: the
\* threads that publish (the vision worker and the demo timer of
\* app_multimodal.py) run the handlers themselves and interleave between
\* statements.  A thread is a record: pc is the statement it runs next,
\* event the event it publishes, ret the statements to return to from
\* end_current_session, session and reason the locals of end_current_session,
\* session_id the id start_interaction returned.
Producers == {"vision", "demo"}

IdleThread ==
  [pc |-> "idle", event |-> <<>>, ret |-> <<>>, session |-> <<>>,
   reason |-> None, session_id |-> NoId]

\* the events a thread publishes at time t: both a gaze deviation, the demo
\* also a gesture
ThreadEvents(p, t) ==
  IF p = "vision" THEN {GazeEvent("left", GAZE, 90, t)}
  ELSE {GazeEvent("left", GAZE, 90, t), GestureEvent("thumbs_up", 80, t)}

\* thread p is at statement pc
At(p, pc) == threads[p].pc = pc

\* thread p goes to statement pc
Goto(p, pc) == threads' = [threads EXCEPT ![p].pc = pc]

\* the handler of thread p raised: the except clause of publish catches it
\* and publish returns
HandlerRaised(p) == threads' = [threads EXCEPT ![p] = IdleThread]

\* thread p calls end_current_session(reason) and returns to statement ret
CallEnd(p, reason, ret) ==
  threads' = [threads EXCEPT ![p].pc = "end_1", ![p].reason = reason,
                             ![p].ret = <<ret>> \o @]

\* what a step of a thread leaves alone besides the singletons' fields
ThreadFrame == UNCHANGED <<calls, last_call, test, fusvars, busvars, timers>>

\* a step that changes no field of the singletons
Reads == Apply(State) /\ ThreadFrame

ThreadInit ==
  /\ now = 0
  /\ current_state = IDLE
  /\ current_session = <<>>
  /\ session_history = <<>>
  /\ next_id = 1
  /\ event_history = <<>>
  /\ interaction_log = <<>>
  /\ response_history = <<>>
  /\ reminders = {}
  /\ calls = 0
  /\ last_call = [op |-> None, arg |-> <<>>, id |-> NoId, ok |-> FALSE]
  /\ test = None
  /\ BusIdle
  /\ threads = [p \in Producers |-> IdleThread]
  /\ timers = {}
  /\ NothingDropped
  /\ raising = FALSE
  /\ fusion_rules = _initialize_rules
  /\ FusionIdle

\* EventBus.publish, lines 119-121, then the call of the handler
T_publish ==
  \E p \in Producers : \E event \in ThreadEvents(p, now) :
    LET appended == Append(event_history, event) IN
    /\ At(p, "idle")
    /\ calls < MaxThreadCalls
    /\ Apply([State EXCEPT !.event_history =
                IF Len(appended) > _max_history THEN Tail(appended) ELSE appended])
    /\ threads' = [threads EXCEPT
                     ![p].event = <<event>>,
                     ![p].pc = IF event.event_type = GAZE_CHANGED
                                 THEN "gaze_1" ELSE "gesture_1"]
    /\ calls' = calls + 1
    /\ last_call' = [op |-> "publish", arg |-> <<event>>, id |-> NoId, ok |-> FALSE]
    /\ UNCHANGED <<test, fusvars, busvars, timers>>

\* _handle_gaze_event, line 107
T_gaze_1 ==
  \E p \in Producers :
    /\ At(p, "gaze_1")
    /\ Goto(p, IF threads[p].event[1].data.state \in {"left", "right"}
                 THEN "trigger_1" ELSE "add_1")
    /\ Reads

\* _handle_gesture_event, lines 116-124: the intent is written into the
\* event, an object the bus history holds too
T_gesture_1 ==
  \E p \in Producers :
    LET event == threads[p].event[1]
        gesture == event.data.gesture
        written == IF gesture \in {"thumbs_up", "ok"}
                     THEN [event EXCEPT !.data.intent = "confirm"]
                   ELSE IF gesture \in {"thumbs_down", "stop"}
                     THEN [event EXCEPT !.data.intent = "reject"]
                   ELSE IF gesture \in {"wave"}
                     THEN [event EXCEPT !.data.intent = "attention"]
                   ELSE event
        held == {i \in 1..Len(event_history) : event_history[i] = event}
    IN /\ At(p, "gesture_1")
       /\ threads' = [threads EXCEPT ![p].event = <<written>>, ![p].pc = "add_1"]
       /\ Apply([State EXCEPT !.event_history =
                   [i \in 1..Len(event_history) |->
                      IF i \in held /\ \A j \in held : j <= i
                        THEN written ELSE event_history[i]]])
       /\ ThreadFrame

\* _trigger_distraction_scenario, lines 154-155
T_trigger_1 ==
  \E p \in Producers :
    /\ At(p, "trigger_1")
    /\ Goto(p, IF current_state # IDLE THEN "add_1" ELSE "start_1")
    /\ Reads

\* start_interaction, lines 85-86
T_start_1 ==
  \E p \in Producers :
    /\ At(p, "start_1")
    /\ IF current_session # <<>>
         THEN CallEnd(p, "new_session_started", "start_2")
         ELSE Goto(p, "start_2")
    /\ Reads

\* start_interaction, lines 89-98
T_start_2 ==
  \E p \in Producers :
    /\ At(p, "start_2")
    /\ Apply([State EXCEPT
                !.next_id = @ + 1,
                !.current_session =
                   <<InteractionSession(next_id, DISTRACTION_ALERT, now,
                                        {AUDIO, GESTURE}, DistractionTimeout)>>])
    /\ threads' = [threads EXCEPT ![p].pc = "start_3", ![p].session_id = next_id]
    /\ ThreadFrame

\* start_interaction, lines 100-107: change_state and its callback
T_start_3 ==
  \E p \in Producers :
    /\ At(p, "start_3")
    /\ Apply(change_state(State, WAITING_RESPONSE, threads[p].session_id))
    /\ Goto(p, "trigger_2")
    /\ ThreadFrame

\* _trigger_distraction_scenario, lines 172-186: the DISTRACTION_DETECTED
\* event is published and handled
T_trigger_2 ==
  \E p \in Producers :
    LET trigger_event == threads[p].event[1]
        distraction_event ==
          ModalityEvent(DISTRACTION_DETECTED, VISION, now, trigger_event.confidence,
                        [NoData EXCEPT !.gaze_state = trigger_event.data.state],
                        threads[p].session_id)
    IN /\ At(p, "trigger_2")
       /\ Apply(publish(State, distraction_event))
       /\ Goto(p, "add_1")
       /\ ThreadFrame

\* add_event_to_session, lines 111-112
T_add_1 ==
  \E p \in Producers :
    /\ At(p, "add_1")
    /\ Goto(p, IF current_session = <<>> THEN "check_1" ELSE "add_2")
    /\ Reads

\* add_event_to_session, lines 115-117: current_session is read again; when
\* another thread has set it to None the attribute access raises
T_add_2 ==
  \E p \in Producers :
    /\ At(p, "add_2")
    /\ IF current_session = <<>> THEN HandlerRaised(p)
       ELSE IF is_expired(current_session[1], now)
         THEN CallEnd(p, "timeout", "check_1")
       ELSE Goto(p, "add_3")
    /\ Reads

\* add_event_to_session, lines 120-123
T_add_3 ==
  \E p \in Producers :
    /\ At(p, "add_3")
    /\ IF current_session = <<>>
         THEN HandlerRaised(p) /\ Apply(State)
         ELSE /\ Goto(p, "check_1")
              /\ Apply([State EXCEPT !.current_session[1].received_events =
                          Append(@, threads[p].event[1])])
    /\ ThreadFrame

\* _check_fusion_completion, lines 188-205, run without interruption, and
\* the return of publish
T_check_1 ==
  \E p \in Producers :
    /\ At(p, "check_1")
    /\ Apply(_check_fusion_completion(State))
    /\ threads' = [threads EXCEPT ![p] = IdleThread]
    /\ ThreadFrame

\* thread p returns from end_current_session
Return(p) ==
  threads' = [threads EXCEPT ![p].pc = Head(threads[p].ret), ![p].ret = Tail(@),
                             ![p].session = <<>>, ![p].reason = None]

\* end_current_session, lines 146-147
T_end_1 ==
  \E p \in Producers :
    /\ At(p, "end_1")
    /\ IF current_session = <<>> THEN Return(p) ELSE Goto(p, "end_2")
    /\ Reads

\* end_current_session, lines 149-151: session = self.current_session, read
\* again, and the metadata written into that object, which current_session
\* and session_history may hold too
T_end_2 ==
  \E p \in Producers :
    /\ At(p, "end_2")
    /\ IF current_session = <<>>
         THEN HandlerRaised(p) /\ Apply(State)
         ELSE LET stamped ==
                    [current_session[1] EXCEPT
                       !.metadata = [end_reason |-> threads[p].reason,
                                     duration |-> duration(current_session[1], now)]]
              IN /\ threads' = [threads EXCEPT ![p].session = <<stamped>>,
                                               ![p].pc = "end_3"]
                 /\ Apply([State EXCEPT
                             !.current_session = <<stamped>>,
                             !.session_history =
                                [i \in 1..Len(session_history) |->
                                   IF session_history[i].session_id = stamped.session_id
                                     THEN [session_history[i] EXCEPT
                                             !.metadata = stamped.metadata]
                                     ELSE session_history[i]]])
    /\ ThreadFrame

\* end_current_session, lines 154-158
T_end_3 ==
  \E p \in Producers :
    LET appended == Append(session_history, threads[p].session[1]) IN
    /\ At(p, "end_3")
    /\ Apply([State EXCEPT
                !.session_history =
                   IF Len(appended) > MaxSessionHistory THEN Tail(appended) ELSE appended,
                !.ended = Append(@, threads[p].session[1])])
    /\ Goto(p, "end_4")
    /\ ThreadFrame

\* end_current_session, line 162
T_end_4 ==
  \E p \in Producers :
    /\ At(p, "end_4")
    /\ Apply([State EXCEPT !.current_session = <<>>])
    /\ Goto(p, "end_5")
    /\ ThreadFrame

\* end_current_session, line 163, and its return
T_end_5 ==
  \E p \in Producers :
    /\ At(p, "end_5")
    /\ Apply(change_state(State, IDLE, NoId))
    /\ Return(p)
    /\ ThreadFrame

\* what a step of a reminder thread leaves alone
TimerFrame == UNCHANGED <<calls, last_call, test, fusvars, busvars, threads>>

\* reminder thread r goes to statement pc; a thread that has returned is
\* forgotten
TimerGoto(r, pc) ==
  timers' = IF pc = "done" THEN timers \ {r}
            ELSE (timers \ {r}) \cup {[r EXCEPT !.pc = pc]}

\* timeout_reminder, line 206: the sleep is over
R_wake ==
  \E r \in reminders :
    /\ now >= r.due
    /\ Apply([State EXCEPT !.reminders = @ \ {r}])
    /\ timers' = timers \cup {[session_id |-> r.session_id, pc |-> "rem_1"]}
    /\ TimerFrame

\* timeout_reminder, line 209
R_rem_1 ==
  \E r \in timers :
    /\ r.pc = "rem_1"
    /\ TimerGoto(r, IF current_session # <<>> THEN "rem_2" ELSE "done")
    /\ Apply(State)
    /\ TimerFrame

\* timeout_reminder, line 210: current_session is read again; when it has
\* become None the attribute access raises and the thread dies
R_rem_2 ==
  \E r \in timers :
    /\ r.pc = "rem_2"
    /\ TimerGoto(r, IF current_session = <<>> THEN "faulted"
                    ELSE IF current_session[1].session_id = r.session_id
                      THEN "rem_3" ELSE "done")
    /\ Apply(State)
    /\ TimerFrame

\* timeout_reminder, line 211
R_rem_3 ==
  \E r \in timers :
    /\ r.pc = "rem_3"
    /\ TimerGoto(r, IF current_state = WAITING_RESPONSE THEN "rem_4" ELSE "done")
    /\ Apply(State)
    /\ TimerFrame

\* timeout_reminder, lines 214-230: the two reminder responses are sent
R_rem_4 ==
  \E r \in timers :
    /\ r.pc = "rem_4"
    /\ Apply(_send_response(
               _send_response(State, SystemResponse(AUDIO, "timeout_reminder",
                                                    r.session_id, now)),
               SystemResponse(VISUAL, "timeout_reminder", r.session_id, now)))
    /\ TimerGoto(r, "done")
    /\ TimerFrame

\* time passes; a publish and the body of a reminder run within one step of
\* the clock
T_tick ==
  /\ \A p \in Producers : At(p, "idle")
  /\ \A r \in timers : r.pc = "faulted"
  /\ Tick

ThreadNext ==
  \/ T_tick
  \/ T_publish
  \/ T_gaze_1
  \/ T_gesture_1
  \/ T_trigger_1
  \/ T_start_1
  \/ T_start_2
  \/ T_start_3
  \/ T_trigger_2
  \/ T_add_1
  \/ T_add_2
  \/ T_add_3
  \/ T_check_1
  \/ T_end_1
  \/ T_end_2
  \/ T_end_3
  \/ T_end_4
  \/ T_end_5
  \/ R_wake
  \/ R_rem_1
  \/ R_rem_2
  \/ R_rem_3
  \/ R_rem_4

ThreadSpec == ThreadInit /\ [][ThreadNext]_vars

(************************ the system after a long run **********************)
\* The three lists are cut when they pass 100, 500 and 1000 entries.  The
\* system is observed after it has run for a while: one of the lists holds
\* what earlier sessions left in it, all of them over before the reminder
\* delay ago, so that no reminder thread of theirs is still asleep.
Earlier == 0 - (ReminderDelay + 1)

\* n sessions started by start_interaction and ended by end_current_session()
EarlierSessions(n) ==
  [i \in 1..n |->
     [InteractionSession(i, DISTRACTION_ALERT, Earlier, {AUDIO, GESTURE}, DefaultTimeout)
        EXCEPT !.metadata = [end_reason |-> "manual", duration |-> 0]]]

\* the responses to n \div 3 distraction alerts
EarlierResponses(n) ==
  [i \in 1..n |->
     SystemResponse(<<TEXT, AUDIO, VISUAL>>[((i - 1) % 3) + 1], "distraction_alert",
                    ((i - 1) \div 3) + 1, Earlier)]

\* the log entries of n voice commands refused by a gesture "thumbs_down"
EarlierLog(n) ==
  [i \in 1..n |->
     LET seed == ModalityEvent(SPEECH_RECOGNIZED, AUDIO, Earlier, Conf(90),
                               [NoData EXCEPT !.text = "command"], i)
         gesture == [GestureEvent("thumbs_down", 70, Earlier)
                       EXCEPT !.data.intent = "reject"]
     IN [session_id |-> i, scenario |-> VOICE_COMMAND,
         fusion_result |-> _perform_fusion(<<seed, gesture>>,
                                           _initialize_rules[VOICE_COMMAND], Earlier),
         timestamp |-> Earlier]]

\* which list is long, and how long: session_history full, response_history
\* one alert short of its limit, interaction_log full
LongRuns ==
  {[sessions |-> MaxSessionHistory, responses |-> 0, log |-> 0],
   [sessions |-> 0, responses |-> MaxResponseHistory - 2, log |-> 0],
   [sessions |-> 0, responses |-> 0, log |-> MaxInteractionLog]}

LongRunInit ==
  \E run \in LongRuns :
    /\ now = 0
    /\ current_state = IDLE
    /\ current_session = <<>>
    /\ session_history = EarlierSessions(run.sessions)
    /\ next_id = 1 + run.sessions + run.responses + run.log
    /\ event_history = <<>>
    /\ interaction_log = EarlierLog(run.log)
    /\ response_history = EarlierResponses(run.responses)
    /\ reminders = {}
    /\ calls = 0
    /\ last_call = [op |-> None, arg |-> <<>>, id |-> NoId, ok |-> FALSE]
    /\ test = None
    /\ BusIdle
    /\ ThreadsIdle
    /\ NothingDropped
    /\ raising = FALSE
    /\ fusion_rules = _initialize_rules
    /\ FusionIdle

\* the events published in the long run: a gaze deviation, a confirming and
\* a refusing gesture
LongRunEvents(t) ==
  {GazeEvent("left", GAZE, 90, t), GestureEvent("ok", 60, t),
   GestureEvent("thumbs_down", 70, t)}

LongRunPublish == \E event \in LongRunEvents(now) : Publish(event)

LongRunNext ==
  \/ Tick
  \/ LongRunPublish
  \/ TriggerVoiceCommand
  \/ ReminderFire

LongRunSpec == LongRunInit /\ [][LongRunNext]_vars

(******************* the engine with a reduced rule table *******************)
\* RuleFusionEngine.fusion_rules is a plain dict attribute: a deployment that
\* drops a scenario's rule leaves _check_fusion_completion with
\* self.fusion_rules.get(session.scenario) = None for that scenario
ReducedRules(scenario) ==
  [s \in DOMAIN _initialize_rules \ {scenario} |-> _initialize_rules[s]]

ConfigInit ==
  /\ now = 0
  /\ current_state = IDLE
  /\ current_session = <<>>
  /\ session_history = <<>>
  /\ next_id = 1
  /\ event_history = <<>>
  /\ interaction_log = <<>>
  /\ response_history = <<>>
  /\ reminders = {}
  /\ calls = 0
  /\ last_call = [op |-> None, arg |-> <<>>, id |-> NoId, ok |-> FALSE]
  /\ test = None
  /\ BusIdle
  /\ ThreadsIdle
  /\ NothingDropped
  /\ raising = FALSE
  /\ \E scenario \in DOMAIN _initialize_rules : fusion_rules = ReducedRules(scenario)
  /\ FusionIdle

ConfigSpec == ConfigInit /\ [][Next]_vars

(************ the engine with a callback that may raise ********************)
\* the same engine; the callback subscribed for ATTENTION_CONFIRMED either
\* works as written or raises on entry
ConfirmInit ==
  /\ now = 0
  /\ current_state = IDLE
  /\ current_session = <<>>
  /\ session_history = <<>>
  /\ next_id = 1
  /\ event_history = <<>>
  /\ interaction_log = <<>>
  /\ response_history = <<>>
  /\ reminders = {}
  /\ calls = 0
  /\ last_call = [op |-> None, arg |-> <<>>, id |-> NoId, ok |-> FALSE]
  /\ test = None
  /\ BusIdle
  /\ ThreadsIdle
  /\ NothingDropped
  /\ raising \in BOOLEAN
  /\ fusion_rules = _initialize_rules
  /\ FusionIdle

ConfirmSpec == ConfirmInit /\ [][Next]_vars

(*********************** _perform_fusion on its own ************************)
FusionStrategies == {MAJORITY_VOTE, CONFIDENCE_WEIGHTED, PRIORITY_BASED, TIME_WINDOW}

\* the rules _perform_fusion is called with: the three of _initialize_rules,
\* each also with every other member of FusionStrategy in its place
PerformRules ==
  {[_initialize_rules[scenario] EXCEPT !.fusion_strategy = strategy] :
     scenario \in DOMAIN _initialize_rules, strategy \in FusionStrategies}

\* the events a window is made of, as a session holds them once their
\* handler has run: the speech event that seeds a voice command (no intent),
\* two gestures and two classified intents that disagree at equal
\* confidence, a gaze back on the road at confidence 0, and a gesture the
\* engine has no intent for
PerformEvents ==
  {SpeechEvent(90, 0),
   [GestureEvent("ok", 60, 0) EXCEPT !.data.intent = "confirm"],
   [GestureEvent("thumbs_down", 60, 0) EXCEPT !.data.intent = "reject"],
   [IntentEvent("attention_confirm", 100, 0) EXCEPT
      !.data.response_type = "attention_confirmed"],
   [IntentEvent("reject", 100, 0) EXCEPT !.data.response_type = "attention_rejected"],
   GazeEvent("center", GAZE, 0, 0),
   GestureEvent("peace", 60, 0)}

\* the lists of at most n elements of S
SeqsUpTo(S, n) == UNION {[1..k -> S] : k \in 0..n}

\* test_fusion_strategies: a voice command, a gesture "ok", a gaze to the
\* left and a classified intent
StrategyScript ==
  <<<<"trigger_voice", None, None, 90>>, <<"gesture", "ok", None, 60>>,
    <<"gaze", "left", VISION, 90>>, <<"intent", "attention_confirm", None, 80>>>>

\* either _perform_fusion is given a rule and a list of events that
\* _can_perform_fusion accepts, or test_fusion_strategies drives the system
FusionInit ==
  /\ now = 0
  /\ current_state = IDLE
  /\ current_session = <<>>
  /\ session_history = <<>>
  /\ next_id = 1
  /\ event_history = <<>>
  /\ interaction_log = <<>>
  /\ response_history = <<>>
  /\ reminders = {}
  /\ calls = 0
  /\ last_call = [op |-> None, arg |-> <<>>, id |-> NoId, ok |-> FALSE]
  /\ BusIdle
  /\ ThreadsIdle
  /\ NothingDropped
  /\ raising = FALSE
  /\ fusion_rules = _initialize_rules
  /\ pf_result = <<>>
  /\ \/ /\ test = None
        /\ \E rule \in PerformRules : pf_rule = <<rule>>
        /\ pf_events \in SeqsUpTo(PerformEvents, MaxWindow)
        /\ _can_perform_fusion(pf_events, pf_rule[1])
     \/ /\ test = "test_fusion_strategies"
        /\ pf_rule = <<>>
        /\ pf_events = <<>>

\* self._perform_fusion(events, rule) while the events are within the
\* rule's time window
PerformFusion ==
  /\ pf_rule # <<>>
  /\ \A i \in 1..Len(pf_events) : now - pf_events[i].timestamp <= pf_rule[1].time_window
  /\ pf_result' = <<_perform_fusion(pf_events, pf_rule[1], now)>>
  /\ UNCHANGED <<now, current_state, current_session, session_history, next_id,
                 event_history, interaction_log, response_history, reminders,
                 calls, last_call, test, busvars, thrvars, histvars, fusion_rules,
                 raising,
                 pf_rule, pf_events>>

\* the test makes the next call of its script
StrategyStep ==
  /\ test = "test_fusion_strategies"
  /\ calls < Len(StrategyScript)
  /\ LET step == StrategyScript[calls + 1] IN
       IF step[1] = "trigger_voice"
         THEN /\ Apply(trigger_voice_command_scenario(State, "command", Conf(step[4])))
              /\ Returned("trigger_voice_command_scenario", <<>>, next_id, FALSE)
         ELSE /\ Apply(publish(State, StepEvent(step, now)))
              /\ Returned("publish", <<StepEvent(step, now)>>, NoId, FALSE)

FusionNext ==
  \/ Tick
  \/ PerformFusion
  \/ StrategyStep
  \/ ReminderFire

FusionSpec == FusionInit /\ [][FusionNext]_vars

(******************************* properties ********************************)
Last(s) == s[Len(s)]

\* the producer call op has just returned
Called(op) == calls' = calls + 1 /\ last_call'.op = op

\* the session ids handed out so far
CreatedIds == 1..(next_id - 1)

\* C1: at most one session is started and not yet ended: every session ever
\* created is either the one current session, not yet ended, or is recorded
\* in session_history with an end_reason, so when a new session is current
\* all earlier ones have been ended and recorded.
C1_AtMostOneOpenSession ==
  /\ Len(current_session) <= 1
  /\ current_session # <<>> =>
       /\ current_session[1].metadata.end_reason = None
       /\ \A i \in 1..Len(session_history) :
            session_history[i].session_id # current_session[1].session_id
  /\ \A i \in 1..Len(session_history) : session_history[i].metadata.end_reason # None
  /\ \A id \in CreatedIds :
       \/ current_session # <<>> /\ current_session[1].session_id = id
       \/ \E i \in 1..Len(session_history) : session_history[i].session_id = id

\* a second session is current and the first one is in the history
C1_Witness ==
  /\ current_session # <<>>
  /\ current_session[1].session_id = 2
  /\ Len(session_history) = 1
  /\ session_history[1].session_id = 1

StartOps == {"start_interaction", "trigger_voice_command_scenario",
             "trigger_gesture_control_scenario"}

\* C2: a start_interaction made while a session S is current (called
\* directly or by a trigger_* entry point) appends S to session_history with
\* end_reason "new_session_started", makes a session with a fresh id the
\* current one, leaves WAITING_RESPONSE and fires the WAITING_RESPONSE
\* callback (a reminder is scheduled for the new session); it returns the
\* new id.
C2_StartReplacesSession ==
  [][(calls' = calls + 1 /\ last_call'.op \in StartOps /\ current_session # <<>>) =>
       /\ session_history' =
            Append(session_history,
                   [current_session[1] EXCEPT
                      !.metadata = [end_reason |-> "new_session_started",
                                    duration |-> now - current_session[1].start_time]])
       /\ current_session' # <<>>
       /\ current_session'[1].session_id = last_call'.id
       /\ current_session'[1].session_id \notin CreatedIds
       /\ current_session'[1].metadata.end_reason = None
       /\ current_state' = WAITING_RESPONSE
       /\ \E r \in reminders' \ reminders : r.session_id = last_call'.id]_vars

\* start_interaction has just replaced an active session
C2_Witness ==
  /\ last_call.op = "start_interaction"
  /\ last_call.id = 2
  /\ current_session # <<>>
  /\ session_history # <<>>
  /\ Last(session_history).metadata.end_reason = "new_session_started"

\* C3: add_event_to_session(e) on a current session older than its timeout
\* returns False, appends e nowhere, ends the session with "timeout" as the
\* newest history entry and leaves no session and IDLE; on a current session
\* that is not older than its timeout it appends e last and returns True.
C3_AddEventToSession ==
  [][(Called("add_event_to_session") /\ current_session # <<>>) =>
       LET session == current_session[1]
           e == last_call'.arg[1]
       IN IF now - session.start_time > session.timeout
            THEN /\ last_call'.ok = FALSE
                 /\ current_session' = <<>>
                 /\ current_state' = IDLE
                 /\ Len(session_history') = Len(session_history) + 1
                 /\ Last(session_history').session_id = session.session_id
                 /\ Last(session_history').metadata.end_reason = "timeout"
                 /\ Last(session_history').received_events = session.received_events
            ELSE /\ last_call'.ok = TRUE
                 /\ current_session' # <<>>
                 /\ current_session'[1].session_id = session.session_id
                 /\ current_session'[1].received_events =
                      Append(session.received_events, e)
                 /\ session_history' = session_history
                 /\ current_state' = current_state]_vars

\* add_event_to_session has just refused an event and ended an expired session
C3_Witness ==
  /\ last_call.op = "add_event_to_session"
  /\ last_call.ok = FALSE
  /\ current_session = <<>>
  /\ session_history # <<>>
  /\ Last(session_history).metadata.end_reason = "timeout"
  /\ now - Last(session_history).start_time > Last(session_history).timeout

\* the test has published its whole script, the first event in state IDLE
\* at time 0, and the last event no later than the distraction-alert rule's
\* time window after the first: all events are in the window and the session
\* is within its timeout
ScriptDoneInWindow(name) ==
  /\ test = name
  /\ calls = Len(TestScripts[name])
  /\ last_call.arg[1].timestamp <= fusion_rules[DISTRACTION_ALERT].time_window

\* C4: Scenario A: from IDLE, gaze "left" (0.9), then the intent event
\* "attention_confirm", then gesture "thumbs_up" (0.8), all within the time
\* window, give a fusion decision in {"confirm", "attention"}, end the
\* session with "attention_confirmed" and leave IDLE with no session.
C4_ScenarioA ==
  ScriptDoneInWindow("scenario_a") =>
    /\ interaction_log # <<>>
    /\ Last(interaction_log).fusion_result.decision \in {"confirm", "attention"}
    /\ session_history # <<>>
    /\ Last(session_history).metadata.end_reason = "attention_confirmed"
    /\ current_state = IDLE
    /\ current_session = <<>>

\* C5: Scenario B: in the session started by gaze "right", with the intent
\* event "attention_confirm" (0.8) and the gesture "thumbs_down" (0.7) both
\* in the window, the fusion decision is "confirm", taken from the audio
\* event, and not the gesture's "reject".
C5_ScenarioB ==
  ScriptDoneInWindow("scenario_b") =>
    /\ interaction_log # <<>>
    /\ Last(interaction_log).fusion_result.decision = "confirm"

\* the producer has just published a gaze event
PublishedGaze ==
  /\ Called("publish")
  /\ last_call'.arg[1].event_type = GAZE_CHANGED

\* the events appended to the bus history by the step
NewBusEvents == SubSeq(event_history', Len(event_history) + 1, Len(event_history'))

C7_GazeNeverReplacesSession ==
  [][(PublishedGaze /\ current_session # <<>>) =>
       /\ next_id' = next_id
       /\ \/ current_session' = <<>>
          \/ current_session'[1].session_id = current_session[1].session_id
       /\ \A i \in (Len(session_history) + 1)..Len(session_history') :
            session_history'[i].metadata.end_reason # "new_session_started"]_vars

\* a second gaze deviation was published in an open session and was only
\* added to it
C7_Witness ==
  /\ calls = 2
  /\ next_id = 2
  /\ last_call.op = "publish"
  /\ last_call.arg[1].event_type = GAZE_CHANGED
  /\ last_call.arg[1].data.state # "center"
  /\ current_session # <<>>
  /\ Len(current_session[1].received_events) = 2
  /\ session_history = <<>>

\* C8: every fusion computation (every interaction_log entry) was made on
\* events whose modalities include all required modalities of the scenario's
\* rule and, when the rule has optional modalities, one of them at least.
C8_FusionOnlyWhenComplete ==
  \A i \in 1..Len(interaction_log) :
    LET entry == interaction_log[i]
        rule == fusion_rules[entry.scenario]
        events == entry.fusion_result.events
        modalities == {events[j].modality : j \in 1..Len(events)}
    IN /\ entry.fusion_result.modalities = modalities
       /\ rule.required_modalities \subseteq modalities
       /\ rule.optional_modalities # {} =>
            rule.optional_modalities \cap modalities # {}

\* a fusion was computed
C8_Witness ==
  /\ interaction_log # <<>>
  /\ Last(interaction_log).fusion_result.events_count = 2
  /\ Last(interaction_log).fusion_result.modalities = {GAZE, GESTURE}

\* the session with the given id after the step: the current one, or the
\* one just ended
SessionAfterStep(id) ==
  IF current_session' # <<>> /\ current_session'[1].session_id = id
    THEN current_session'[1] ELSE Last(session_history')

NewAttentionEvents ==
  {i \in 1..Len(NewBusEvents) : NewBusEvents[i].event_type = ATTENTION_CONFIRMED}

\* C10: after a fusion with decision "confirm" or "attention" exactly one
\* ATTENTION_CONFIRMED event with that decision and the session's id has
\* been published and the session is ended with "attention_confirmed", the
\* state IDLE; after a fusion with decision "reject" no ATTENTION_CONFIRMED
\* event has been published and the same session is current in
\* WAITING_RESPONSE.
C10_DecisionHandling ==
  [][interaction_log' # interaction_log =>
       LET entry == Last(interaction_log')
           decision == entry.fusion_result.decision
       IN /\ decision \in {"confirm", "attention"} =>
               /\ Cardinality(NewAttentionEvents) = 1
               /\ \A i \in NewAttentionEvents :
                    /\ NewBusEvents[i].data.decision = decision
                    /\ NewBusEvents[i].session_id = entry.session_id
               /\ current_session' = <<>>
               /\ current_state' = IDLE
               /\ Len(session_history') = Len(session_history) + 1
               /\ Last(session_history').session_id = entry.session_id
               /\ Last(session_history').metadata.end_reason = "attention_confirmed"
          /\ decision = "reject" =>
               /\ NewAttentionEvents = {}
               /\ current_session' # <<>>
               /\ current_session'[1].session_id = entry.session_id
               /\ current_state' = WAITING_RESPONSE
               /\ session_history' = session_history]_vars

\* a fusion decided "confirm": the event is on the bus and the session ended
C10_Witness ==
  /\ interaction_log # <<>>
  /\ Last(interaction_log).fusion_result.decision = "confirm"
  /\ Last(event_history).event_type = ATTENTION_CONFIRMED
  /\ Last(event_history).data.decision = "confirm"
  /\ current_state = IDLE
  /\ Last(session_history).metadata.end_reason = "attention_confirmed"

\* the step runs add_event_to_session first thing on the state it starts in:
\* the direct call, or a publish whose handler begins with it
AddsEventFirst ==
  \/ Called("add_event_to_session")
  \/ /\ Called("publish")
     /\ last_call'.arg[1].event_type \in
          {GESTURE_DETECTED, SPEECH_RECOGNIZED, INTENT_CLASSIFIED, HEAD_POSE_CHANGED}

\* C11: a session is expired exactly when now - start_time > timeout: an
\* add_event_to_session on a session of age <= timeout (age = timeout
\* included) appends the event and returns True, and at any greater age it
\* ends the session with "timeout".
C11_ExpiryBoundary ==
  [][(AddsEventFirst /\ current_session # <<>>) =>
       LET session == current_session[1]
           age == now - session.start_time
           after == SessionAfterStep(session.session_id)
           timed_out ==
             /\ Len(session_history') = Len(session_history) + 1
             /\ Last(session_history').session_id = session.session_id
             /\ Last(session_history').metadata.end_reason = "timeout"
       IN /\ timed_out <=> age > session.timeout
          /\ age <= session.timeout =>
               /\ Len(after.received_events) = Len(session.received_events) + 1
               /\ Last(after.received_events).event_type = last_call'.arg[1].event_type
               /\ Called("add_event_to_session") => last_call'.ok
          /\ age > session.timeout =>
               /\ after.received_events = session.received_events
               /\ Called("add_event_to_session") => ~last_call'.ok]_vars

\* add_event_to_session returned True on a session whose age is its timeout
C11_Witness ==
  /\ last_call.op = "add_event_to_session"
  /\ last_call.ok
  /\ current_session # <<>>
  /\ now - current_session[1].start_time = current_session[1].timeout
  /\ Last(current_session[1].received_events) = last_call.arg[1]

\* C12: end_current_session(reason) with a current session S stamps
\* end_reason = reason and the duration into S.metadata, appends S as the
\* newest entry of session_history, clears the current session and sets
\* IDLE; with no current session it changes nothing.
C12_EndCurrentSession ==
  [][/\ Called("end_current_session") =>
          IF current_session = <<>>
            THEN UNCHANGED <<now, current_state, current_session, session_history,
                             next_id, event_history, interaction_log,
                             response_history, reminders>>
            ELSE /\ session_history' =
                      Append(session_history,
                             [current_session[1] EXCEPT
                                !.metadata = [end_reason |-> "manual",
                                              duration |-> now - current_session[1].start_time]])
                 /\ current_session' = <<>>
                 /\ current_state' = IDLE
                 /\ UNCHANGED <<next_id, event_history, interaction_log,
                                response_history, reminders>>
     /\ Len(session_history') > Len(session_history) =>
          /\ current_session # <<>>
          /\ Len(session_history') = Len(session_history) + 1
          /\ LET closed == Last(session_history') IN
               /\ closed.session_id = current_session[1].session_id
               /\ closed.metadata.end_reason \in
                    {"manual", "timeout", "new_session_started", "attention_confirmed"}
               /\ closed.metadata.duration = now - closed.start_time
               /\ \/ current_session' = <<>> /\ current_state' = IDLE
                  \/ /\ current_session' # <<>>
                     /\ current_session'[1].session_id # closed.session_id]_vars

\* end_current_session() has ended a session that had lasted some time
C12_Witness ==
  /\ last_call.op = "end_current_session"
  /\ session_history # <<>>
  /\ Last(session_history).metadata.end_reason = "manual"
  /\ Last(session_history).metadata.duration > 0
  /\ current_session = <<>>
  /\ current_state = IDLE

\* C20: expiry is lazy: neither the passage of time nor a reminder ends a
\* session or changes current_state; the current session changes only in a
\* call of a producer (add_event_to_session directly or in a handler,
\* start_interaction, end_current_session), so an expired session stays
\* current until then.
C20_LazyExpiry ==
  [][/\ (now' # now \/ (reminders' \subseteq reminders /\ reminders' # reminders)) =>
          UNCHANGED <<current_session, current_state, session_history>>
     /\ (current_session' # current_session \/ current_state' # current_state
           \/ session_history' # session_history) => calls' = calls + 1
     /\ (current_session # <<>> /\ AddsEventFirst
           /\ now - current_session[1].start_time > current_session[1].timeout) =>
          /\ current_session' = <<>>
          /\ Last(session_history').metadata.end_reason = "timeout"]_vars

\* a session is still current after its timeout has passed and its reminder
\* has run
C20_Witness ==
  /\ current_session # <<>>
  /\ now - current_session[1].start_time > current_session[1].timeout
  /\ current_state = WAITING_RESPONSE
  /\ \A r \in reminders : r.session_id # current_session[1].session_id

\* the event the publish of this step was given, and the callbacks
\* subscribed to its type when it was called
PublishedEvent == last_call'.arg[1]
SubscribedCallbacks ==
  IF PublishedEvent.event_type \in DOMAIN _subscribers
    THEN _subscribers[PublishedEvent.event_type] ELSE <<>>

\* C13: publish(e) appends e to the bus history before any handler runs,
\* then invokes every handler subscribed to e.event_type once, in the order
\* of subscription, before it returns; no handler of another type runs.
C13_PublishNotifiesInOrder ==
  [][Called("publish") =>
       /\ event_history' # <<>>
       /\ Last(event_history') = PublishedEvent
       /\ Len(invoked') = Len(SubscribedCallbacks)
       /\ \A i \in 1..Len(invoked') :
            /\ invoked'[i].callback = SubscribedCallbacks[i]
            /\ invoked'[i].event = PublishedEvent
            /\ invoked'[i].recorded]_vars

\* two callbacks subscribed to the type were invoked in subscription order,
\* a subscription to the other type was not, or the reverse order
C13_Witness ==
  /\ last_call.op = "publish"
  /\ Len(invoked) = 2
  /\ invoked[1].callback = "a"
  /\ invoked[2].callback = "b"
  /\ _subscribers[GAZE_CHANGED] = <<"a", "b">>
  /\ invoked[1].recorded

\* C14: when a handler raises during publish(e), the handlers subscribed
\* after it are still invoked, publish returns normally and e stays in the
\* bus history.
C14_FaultIsolation ==
  [][(Called("publish")
        /\ \E i \in 1..Len(SubscribedCallbacks) :
             SubscribedCallbacks[i] \in RaisingCallbacks) =>
       /\ \E i \in 1..Len(invoked') : invoked'[i].raised
       /\ \A i \in 1..Len(SubscribedCallbacks) :
            \E j \in 1..Len(invoked') :
              /\ invoked'[j].callback = SubscribedCallbacks[i]
              /\ Cardinality({k \in 1..j : invoked'[k].callback = SubscribedCallbacks[i]})
                   = Cardinality({k \in 1..i : SubscribedCallbacks[k] = SubscribedCallbacks[i]})
       /\ last_call'.ok
       /\ Last(event_history') = PublishedEvent]_vars

\* the first callback raised and the one subscribed after it was invoked
C14_Witness ==
  /\ last_call.op = "publish"
  /\ last_call.ok
  /\ Len(invoked) = 2
  /\ invoked[1].callback = "b"
  /\ invoked[1].raised
  /\ invoked[2].callback = "a"
  /\ Last(event_history) = last_call.arg[1]

\* C15: the bus history holds at most 1000 events and is always the most
\* recent (up to 1000) published events in publication order.
C15_BoundedHistory ==
  /\ Len(event_history) <= _max_history
  /\ event_history =
       IF Len(published) <= _max_history THEN published
       ELSE SubSeq(published, Len(published) - _max_history + 1, Len(published))

\* more than 1000 events have been published: the oldest was dropped
C15_Witness ==
  /\ last_call.op = "publish"
  /\ Len(published) > _max_history
  /\ Len(event_history) = _max_history
  /\ Last(event_history) = last_call.arg[1]
  /\ event_history[1] = published[Len(published) - _max_history + 1]

\* C16: get_recent_events returns exactly the events of the bus history
\* with now - timestamp <= time_window that match the given filters (an
\* omitted filter matches all), in chronological order, whatever the order
\* of the timestamps in the history; it changes neither the history nor
\* the subscriptions.
C16_GetRecentEvents ==
  [][Called("get_recent_events") =>
       LET r == last_recent_events'[1]
           Matches(event) ==
             /\ now - event.timestamp <= r.time_window
             /\ r.event_type = None \/ event.event_type = r.event_type
             /\ r.modality = None \/ event.modality = r.modality
           matching == {i \in 1..Len(event_history) : Matches(event_history[i])}
       IN /\ Len(r.result) = Cardinality(matching)
          /\ \A k \in 1..Len(r.result) :
               \E i \in matching : event_history[i] = r.result[k]
          /\ \A j, k \in 1..Len(r.result) :
               j < k => r.result[j].timestamp <= r.result[k].timestamp
          /\ UNCHANGED <<event_history, _subscribers>>]_vars

\* the statements of start_interaction, add_event_to_session and
\* end_current_session
SessionOpStatements ==
  {"start_1", "start_2", "start_3", "add_1", "add_2", "add_3",
   "end_1", "end_2", "end_3", "end_4", "end_5"}

\* thread p has run the first statement of one of the three operations and
\* not yet its last (a call of end_current_session made by the other two is
\* inside them)
InsideSessionOp(p) ==
  \/ threads[p].pc \in {"start_2", "start_3", "add_2", "add_3",
                        "end_2", "end_3", "end_4", "end_5"}
  \/ threads[p].ret # <<>>

\* C17: creation, append and end of the current session are mutually
\* exclusive: no thread runs a statement of start_interaction,
\* add_event_to_session or end_current_session while another thread is
\* between the first and the last statement of one of them.
C17_MutualExclusion ==
  [][\A p, q \in Producers :
       (/\ p # q
        /\ DOMAIN threads = Producers
        /\ threads[p].pc \in SessionOpStatements
        /\ threads'[p] # threads[p])
         => ~InsideSessionOp(q)]_vars

\* C18: whenever no thread is inside a publish, every session ever created
\* is either the current session or is recorded exactly once in
\* session_history with an end_reason.
C18_EverySessionAccounted ==
  (DOMAIN threads = Producers /\ \A p \in Producers : At(p, "idle")) =>
    \A id \in CreatedIds :
      LET recorded == {i \in 1..Len(session_history) :
                         session_history[i].session_id = id}
          is_current == current_session # <<>> /\ current_session[1].session_id = id
      IN \/ is_current /\ recorded = {}
         \/ /\ ~is_current
            /\ Cardinality(recorded) = 1
            /\ \A i \in recorded : session_history[i].metadata.end_reason # None

\* C19: a reminder scheduled for session S sends its responses only when S
\* is the current session and the state is WAITING_RESPONSE at that moment,
\* so none is appended after S has ended or been replaced; and the reminder
\* thread never faults.
C19_ReminderRevalidates ==
  /\ [](\A r \in timers : r.pc # "faulted")
  /\ [][(/\ Len(response_history') > Len(response_history)
         /\ Last(response_history').content = "timeout_reminder") =>
          /\ current_session # <<>>
          /\ current_session[1].session_id = Last(response_history').session_id
          /\ current_state = WAITING_RESPONSE]_vars

\* the two programmatic entry points of the scenario handler
TriggerOps == {"trigger_voice_command_scenario", "trigger_gesture_control_scenario"}

\* C21: trigger_voice_command_scenario (trigger_gesture_control_scenario)
\* called in any state ends the active session, if any, with
\* "new_session_started", starts a VOICE_COMMAND (GESTURE_CONTROL) session
\* with a fresh id and publishes the synthetic seed event; on return the
\* session with the returned id is current, the state is WAITING_RESPONSE,
\* the seed event is the newest bus event and the first and only element of
\* the session's received_events, and no fusion was computed.
C21_TriggerStartsSeededSession ==
  [][(calls' = calls + 1 /\ last_call'.op \in TriggerOps) =>
       LET voice == last_call'.op = "trigger_voice_command_scenario"
           id == last_call'.id
       IN /\ id \notin CreatedIds
          /\ current_session' # <<>>
          /\ current_session'[1].session_id = id
          /\ current_session'[1].scenario =
               (IF voice THEN VOICE_COMMAND ELSE GESTURE_CONTROL)
          /\ current_session'[1].start_time = now
          /\ current_state' = WAITING_RESPONSE
          /\ Len(current_session'[1].received_events) = 1
          /\ LET seed == current_session'[1].received_events[1] IN
               /\ seed.event_type = (IF voice THEN SPEECH_RECOGNIZED ELSE GESTURE_DETECTED)
               /\ seed.modality = (IF voice THEN AUDIO ELSE GESTURE)
               /\ seed.session_id = id
               /\ seed.timestamp = now
               /\ (voice => seed.data.text # None)
               /\ (~voice => seed.data.gesture # None)
               /\ event_history' # <<>>
               /\ Last(event_history') = seed
          /\ interaction_log' = interaction_log
          /\ session_history' =
               (IF current_session = <<>> THEN session_history
                ELSE Append(session_history,
                            [current_session[1] EXCEPT
                               !.metadata =
                                  [end_reason |-> "new_session_started",
                                   duration |-> now - current_session[1].start_time]]))]_vars

\* trigger_gesture_control_scenario has just replaced a session that had
\* outlived its timeout, and its seed event is alone in the new session
C21_Witness ==
  /\ last_call.op = "trigger_gesture_control_scenario"
  /\ calls = 2
  /\ current_session # <<>>
  /\ current_session[1].session_id = last_call.id
  /\ Len(current_session[1].received_events) = 1
  /\ session_history # <<>>
  /\ Last(session_history).metadata.end_reason = "new_session_started"
  /\ Last(session_history).metadata.duration > Last(session_history).timeout

\* C23: get_system_status, with the four getters it calls, is read-only: in
\* every state, a current session past its timeout included, the call leaves
\* current_state, the current session, session_history, the bus history and
\* subscriptions, interaction_log, response_history and the pending
\* reminders as they were; the dict it returns describes that state.
C23_StatusIsReadOnly ==
  [][Called("get_system_status") =>
       LET status == last_call'.arg[1] IN
       /\ UNCHANGED <<now, current_state, current_session, session_history, next_id,
                      event_history, _subscribers, interaction_log, response_history,
                      reminders>>
       /\ status.current_state = current_state
       /\ (status.active_session = <<>>) <=> (current_session = <<>>)
       /\ current_session # <<>> =>
            /\ status.active_session[1].session_id = current_session[1].session_id
            /\ status.active_session[1].is_expired =
                 (now - current_session[1].start_time > current_session[1].timeout)
            /\ status.active_session[1].events_count =
                 Len(current_session[1].received_events)
       /\ status.session_stats.total_sessions = Len(session_history)
       /\ status.fusion_stats.total_fusions = Len(interaction_log)
       /\ status.response_stats.total_responses = Len(response_history)
       /\ status.event_history_size = Len(event_history)]_vars

\* get_system_status has just reported a current session that is past its
\* timeout, and the session is still current
C23_Witness ==
  /\ last_call.op = "get_system_status"
  /\ current_session # <<>>
  /\ now - current_session[1].start_time > current_session[1].timeout
  /\ last_call.arg[1].active_session # <<>>
  /\ last_call.arg[1].active_session[1].is_expired
  /\ current_state = WAITING_RESPONSE

\* C24: a ModalityEvent is immutable once published: the event the bus
\* history holds after publish(e) has returned, and the event the session
\* holds when e was added to it, equal e as the producer passed it in: type,
\* modality, timestamp, confidence, session id and data map.
C24_EventImmutable ==
  [][Called("publish") =>
       LET e == last_call'.arg[1] IN
       /\ NewBusEvents # <<>>
       /\ NewBusEvents[1] = e
       /\ (/\ current_session # <<>>
           /\ current_session' # <<>>
           /\ current_session'[1].session_id = current_session[1].session_id
           /\ Len(current_session'[1].received_events) =
                Len(current_session[1].received_events) + 1)
          => Last(current_session'[1].received_events) = e]_vars

\* the published event is a gaze deviation, the one event that starts a session
IsDeviation(e) == e.event_type = GAZE_CHANGED /\ e.data.state \in {"left", "right"}

\* C25: add_event_to_session called when no session is active returns False
\* and changes nothing: no session, state, history or log entry, and no
\* state-change callback (no reminder is scheduled); so an event other than
\* a gaze deviation published with no session leaves IDLE with no session,
\* creates no session and computes no fusion: only the bus history grows, by
\* that event.
C25_NoSessionNoOp ==
  [][(calls' = calls + 1 /\ current_session = <<>>) =>
       /\ last_call'.op = "add_event_to_session" =>
            /\ last_call'.ok = FALSE
            /\ UNCHANGED <<current_state, current_session, session_history, next_id,
                           event_history, interaction_log, response_history,
                           reminders>>
       /\ (last_call'.op = "publish" /\ ~IsDeviation(last_call'.arg[1])) =>
            /\ current_state = IDLE
            /\ UNCHANGED <<current_state, current_session, session_history, next_id,
                           interaction_log, response_history, reminders>>
            /\ Len(event_history') = Len(event_history) + 1]_vars

\* add_event_to_session has just refused an event: no session was ever
\* started and none is
C25_Witness ==
  /\ last_call.op = "add_event_to_session"
  /\ last_call.ok = FALSE
  /\ next_id = 1
  /\ current_session = <<>>
  /\ current_state = IDLE
  /\ session_history = <<>>
  /\ event_history = <<>>

\* C26: after any sequence of session starts and ends session_history holds
\* at most 100 sessions, the most recently ended ones in the order they
\* ended: when a 101st session ends, the oldest entry and no other is dropped.
C26_SessionHistoryBounded ==
  /\ Len(session_history) <= MaxSessionHistory
  /\ session_history = LastN(ended, MaxSessionHistory)

\* a 101st session has ended: the history is full and starts at the second
\* session that ever ended
C26_Witness ==
  /\ Len(ended) = MaxSessionHistory + 1
  /\ Len(session_history) = MaxSessionHistory
  /\ session_history[1] = ended[2]
  /\ Last(session_history).session_id = MaxSessionHistory + 1

\* C27: after every response emission the response history holds at most
\* 500 responses, and they are the most recent ones of all the responses
\* ever sent, in the order they were sent.
C27_ResponseHistoryBounded ==
  /\ Len(response_history) <= MaxResponseHistory
  /\ Len(response_history) <= Len(sent)
  /\ response_history = LastN(sent, Len(response_history))

\* the 501st response has been sent and the history was cut
C27_Witness ==
  /\ Len(sent) = MaxResponseHistory + 1
  /\ Len(response_history) = KeepResponseHistory
  /\ Last(response_history) = Last(sent)

\* C28: every fusion computation appends exactly one entry, with session
\* id, scenario, strategy, modalities, decision and confidence, to the
\* interaction log; once the fusion result is handled the log holds at most
\* 1000 entries, and when the append made it longer than 1000 it is cut to
\* exactly its last 500 entries.
C28_InteractionLogBounded ==
  /\ [](Len(interaction_log) <= MaxInteractionLog)
  /\ [][LET grown == Append(interaction_log, Last(logged'))
             entry == Last(logged')
         IN IF logged' = logged THEN interaction_log' = interaction_log
            ELSE /\ Len(logged') = Len(logged) + 1
                 /\ SubSeq(logged', 1, Len(logged)) = logged
                 /\ interaction_log' =
                      (IF Len(grown) > MaxInteractionLog
                         THEN SubSeq(grown, Len(grown) - KeepInteractionLog + 1, Len(grown))
                         ELSE grown)
                 /\ current_session # <<>>
                 /\ entry.session_id = current_session[1].session_id
                 /\ entry.scenario = current_session[1].scenario
                 /\ entry.fusion_result.strategy =
                      fusion_rules[entry.scenario].fusion_strategy
                 /\ entry.fusion_result.modalities # {}
                 /\ entry.fusion_result.decision \in
                      {None, "confirm", "reject", "attention", "distraction",
                       "attention_confirmed", "attention_rejected"}
                 /\ entry.fusion_result.confidence.den > 0
                 /\ entry.timestamp = now]_vars

\* the 1001st entry has been appended and the log was cut to 500 entries
C28_Witness ==
  /\ Len(logged) = MaxInteractionLog + 1
  /\ Len(interaction_log) = KeepInteractionLog
  /\ Last(interaction_log) = Last(logged)
  /\ interaction_log[1] = logged[Len(logged) - KeepInteractionLog + 1]

\* C29: when the current session's scenario has no FusionRule, handling an
\* event performs no fusion: the event is still appended to the session
\* (unless the session had expired, and then it ends with "timeout"), no
\* interaction_log entry is added, no ATTENTION_CONFIRMED event is published,
\* and the session stays open until a timeout, a new start or an explicit end
\* ends it.
RuleLess(session) == session # <<>> /\ session[1].scenario \notin DOMAIN fusion_rules

C29_NoRuleNoFusion ==
  /\ [](\A i \in 1..Len(logged) : logged[i].scenario \in DOMAIN fusion_rules)
  /\ [][RuleLess(current_session) =>
          /\ interaction_log' = interaction_log
          /\ \A i \in 1..Len(NewBusEvents) :
                NewBusEvents[i].event_type # ATTENTION_CONFIRMED
          /\ (calls' = calls + 1 /\ last_call'.op = "publish") =>
                IF is_expired(current_session[1], now)
                  THEN /\ current_session' = <<>>
                       /\ Last(ended').metadata.end_reason = "timeout"
                  ELSE /\ Len(NewBusEvents) = 1
                       /\ current_session' =
                            <<[current_session[1] EXCEPT
                                 !.received_events = Append(@, NewBusEvents[1])]>>
          /\ (current_session' = <<>>
                \/ current_session'[1].session_id # current_session[1].session_id) =>
                /\ Len(ended') = Len(ended) + 1
                /\ Last(ended').session_id = current_session[1].session_id
                /\ Last(ended').metadata.end_reason \in
                     {"timeout", "new_session_started", "manual"}]_vars

\* a voice-command session whose scenario has no rule holds the speech seed and
\* a confirming gesture, both within the window of the shipped rule, and
\* nothing was fused
C29_Witness ==
  /\ VOICE_COMMAND \notin DOMAIN fusion_rules
  /\ current_session # <<>>
  /\ current_session[1].scenario = VOICE_COMMAND
  /\ Len(current_session[1].received_events) = 2
  /\ current_session[1].received_events[1].modality = AUDIO
  /\ current_session[1].received_events[2].modality = GESTURE
  /\ current_session[1].received_events[2].data.intent = "confirm"
  /\ last_call.op = "publish"
  /\ interaction_log = <<>>
  /\ current_state = WAITING_RESPONSE

\* C22: a voice command followed within the rule's window by a gesture "ok"
\* is fused by confidence weighting into a decision that is not None, and
\* for every list of events with confidences between 0 and 1 the confidence
\* that confidence-weighted fusion reports is at least 0 and at most 1.
InUnitInterval(c) == c.den > 0 /\ 0 <= c.num /\ c.num <= c.den

C22_WeightedConfidenceNormalized ==
  /\ []((pf_result # <<>> /\ pf_rule[1].fusion_strategy = CONFIDENCE_WEIGHTED) =>
          /\ \A i \in 1..Len(pf_events) : InUnitInterval(pf_events[i].confidence)
          /\ \A m \in DOMAIN pf_rule[1].modality_weights :
                pf_rule[1].modality_weights[m] > 0
          /\ pf_result[1].strategy = CONFIDENCE_WEIGHTED
          /\ InUnitInterval(pf_result[1].confidence))
  /\ [][(/\ test = "test_fusion_strategies"
          /\ calls = 1 /\ calls' = 2
          /\ current_session # <<>>
          /\ now - current_session[1].received_events[1].timestamp
                <= fusion_rules[VOICE_COMMAND].time_window) =>
          /\ logged' = Append(logged, Last(logged'))
          /\ Last(logged').scenario = VOICE_COMMAND
          /\ Last(logged').session_id = current_session[1].session_id
          /\ Last(logged').fusion_result.strategy = CONFIDENCE_WEIGHTED
          /\ Last(logged').fusion_result.events_count = 2
          /\ Last(logged').fusion_result.decision = "confirm"
          /\ Last(logged').fusion_result.decision # None
          /\ InUnitInterval(Last(logged').fusion_result.confidence)
          /\ Last(logged').fusion_result.confidence.num * 100
               = 60 * Last(logged').fusion_result.confidence.den]_vars

\* test_fusion_strategies has published its gesture "ok" within the window
\* of the voice command and the fusion of the two is the last log entry
C22_Witness ==
  /\ test = "test_fusion_strategies"
  /\ calls = 2
  /\ last_call.op = "publish"
  /\ last_call.arg[1].data.gesture = "ok"
  /\ Len(interaction_log) = 1
  /\ interaction_log[1].fusion_result.strategy = CONFIDENCE_WEIGHTED
  /\ interaction_log[1].fusion_result.decision = "confirm"
  /\ interaction_log[1].fusion_result.events[1].event_type = SPEECH_RECOGNIZED
  /\ interaction_log[1].fusion_result.events[2].data.gesture = "ok"

\* C30: fusion is deterministic and total. The decision and the confidence
\* are functions of the rule and the ordered list of events: a second call
\* with the same arguments at a later time returns the same two values. Among
\* intents with equal weighted score (confidence-weighted) or equal votes
\* (majority vote) the one whose first event arrived first wins; among events
\* of one modality with equal confidence (priority-based) the first to arrive
\* is taken. A rule whose strategy is TIME_WINDOW, and a list in which no
\* event yields an intent, give decision None and confidence 0 and no error.
ArgIntent(i) == _extract_intent_from_event(pf_events[i])
ArgIntents == {ArgIntent(i) : i \in 1..Len(pf_events)} \ {None}
FirstAt(intent) == CHOOSE i \in 1..Len(pf_events) :
  ArgIntent(i) = intent /\ \A j \in 1..(i - 1) : ArgIntent(j) # intent
\* the weighted score of an intent in hundredths of tenths, and its votes
WeightedScore(intent) ==
  SumSeq([i \in 1..Len(pf_events) |->
            IF ArgIntent(i) = intent
              THEN weight_of(pf_rule[1], pf_events[i].modality) * pf_events[i].confidence.num
              ELSE 0])
TotalWeight ==
  SumSeq([i \in 1..Len(pf_events) |->
            IF ArgIntent(i) # None THEN weight_of(pf_rule[1], pf_events[i].modality) ELSE 0])
Votes(intent) == Cardinality({i \in 1..Len(pf_events) : ArgIntent(i) = intent})
\* intent d has the highest key, and arrived first among those that have it
WinsBy(Key(_), d) ==
  /\ d \in ArgIntents
  /\ \A l \in ArgIntents :
        Key(l) < Key(d) \/ (Key(l) = Key(d) /\ FirstAt(d) <= FirstAt(l))
\* the event of modality m with the highest confidence, the first of them
BestOf(m) == CHOOSE i \in 1..Len(pf_events) :
  /\ pf_events[i].modality = m
  /\ \A j \in 1..Len(pf_events) : pf_events[j].modality = m =>
        \/ FracLess(pf_events[j].confidence, pf_events[i].confidence)
        \/ (~FracLess(pf_events[i].confidence, pf_events[j].confidence) /\ i <= j)
\* the positions of priority_order whose modality is present and whose best
\* event yields an intent
Deciding ==
  {k \in 1..Len(pf_rule[1].priority_order) :
     /\ \E i \in 1..Len(pf_events) : pf_events[i].modality = pf_rule[1].priority_order[k]
     /\ ArgIntent(BestOf(pf_rule[1].priority_order[k])) # None}
SameFrac(a, b) == a.num * b.den = b.num * a.den
Undecided(result) == result.decision = None /\ result.confidence.num = 0

C30_FusionDeterministicTotal ==
  /\ [](pf_result # <<>> =>
         LET result == pf_result[1]
             strategy == pf_rule[1].fusion_strategy
         IN /\ result.strategy = strategy
            /\ result.events_count = Len(pf_events)
            /\ result.confidence.den > 0
            /\ \A i \in 1..Len(pf_events) : pf_events[i].confidence.den = 100
            /\ strategy = TIME_WINDOW => Undecided(result)
            /\ (ArgIntents = {} /\ strategy \in {CONFIDENCE_WEIGHTED, MAJORITY_VOTE})
                  => Undecided(result)
            /\ (ArgIntents # {} /\ strategy = CONFIDENCE_WEIGHTED) =>
                  /\ WinsBy(WeightedScore, result.decision)
                  /\ SameFrac(result.confidence,
                              [num |-> WeightedScore(result.decision),
                               den |-> 100 * TotalWeight])
            /\ (ArgIntents # {} /\ strategy = MAJORITY_VOTE) =>
                  /\ WinsBy(Votes, result.decision)
                  /\ SameFrac(result.confidence,
                              [num |-> Votes(result.decision), den |-> Len(pf_events)])
            /\ (Deciding = {} /\ strategy = PRIORITY_BASED) => Undecided(result)
            /\ (Deciding # {} /\ strategy = PRIORITY_BASED) =>
                  LET k == CHOOSE k \in Deciding : \A other \in Deciding : k <= other
                      best == BestOf(pf_rule[1].priority_order[k])
                  IN /\ result.decision = ArgIntent(best)
                     /\ result.confidence = pf_events[best].confidence)
  /\ [][(pf_result # <<>> /\ pf_result' # <<>>) =>
          /\ pf_result'[1].decision = pf_result[1].decision
          /\ pf_result'[1].confidence = pf_result[1].confidence]_vars

\* a speech seed, a thumbs-down and an "ok" of equal confidence were fused by
\* confidence weighting a second time, later than the first: the two
\* intents tie and the one that arrived first was reported
C30_Witness ==
  /\ pf_result # <<>>
  /\ pf_rule[1].fusion_strategy = CONFIDENCE_WEIGHTED
  /\ Len(pf_events) = 3
  /\ ArgIntent(1) = None
  /\ ArgIntent(2) = "reject"
  /\ ArgIntent(3) = "confirm"
  /\ WeightedScore("reject") = WeightedScore("confirm")
  /\ pf_result[1].decision = "reject"
  /\ pf_result[1].timestamp > 0

\* C31: priority-based fusion takes the first modality of priority_order
\* that has an event in the window, selects that modality's event of highest
\* confidence, and stops: the decision is the intent of that event, and a
\* modality further down the order never decides while one further up has
\* an event in the window.
PresentAt(events, order) ==
  {k \in 1..Len(order) : \E i \in 1..Len(events) : events[i].modality = order[k]}
HighestOf(events, modality) == CHOOSE i \in 1..Len(events) :
  /\ events[i].modality = modality
  /\ \A j \in 1..Len(events) : events[j].modality = modality =>
        \/ FracLess(events[j].confidence, events[i].confidence)
        \/ (~FracLess(events[i].confidence, events[j].confidence) /\ i <= j)

C31_PriorityStopsAtFirstPresent ==
  \A n \in 1..Len(logged) :
    LET result == logged[n].fusion_result
        order == fusion_rules[logged[n].scenario].priority_order
        present == PresentAt(result.events, order)
    IN (result.strategy = PRIORITY_BASED /\ present # {}) =>
         LET first == CHOOSE k \in present : \A other \in present : k <= other
             best == result.events[HighestOf(result.events, order[first])]
         IN /\ result.decision = _extract_intent_from_event(best)
            /\ result.decision # None => result.confidence = best.confidence

\* C32: confidence-weighted fusion equals the reference computation: the
\* score of an intent is the sum of weight(modality) x confidence over the
\* events with that intent, divided by the total weight of the events that
\* yield an intent; the decision is an intent of maximal score and the
\* confidence reported is the normalized score of that intent.
C32_WeightedMatchesReference ==
  (pf_result # <<>> /\ pf_rule[1].fusion_strategy = CONFIDENCE_WEIGHTED) =>
    LET decision == pf_result[1].decision
        confidence == pf_result[1].confidence
    IN /\ \A i \in 1..Len(pf_events) : pf_events[i].confidence.den = 100
       /\ decision = None <=> ArgIntents = {}
       /\ decision # None =>
            /\ decision \in ArgIntents
            /\ TotalWeight > 0
            /\ \A intent \in ArgIntents : WeightedScore(intent) <= WeightedScore(decision)
            /\ confidence.den > 0
            /\ confidence.num * (100 * TotalWeight)
                 = WeightedScore(decision) * confidence.den

\* a speech event without intent, an "ok" at 0.6 and a classified "reject"
\* at 1.0 were fused under the voice-command weights: reject scores 0.6
\* against 0.18 for confirm and is reported with 0.6 / 0.9
C32_Witness ==
  /\ pf_result # <<>>
  /\ pf_rule[1].fusion_strategy = CONFIDENCE_WEIGHTED
  /\ pf_rule[1].modality_weights = _initialize_rules[VOICE_COMMAND].modality_weights
  /\ Len(pf_events) = 3
  /\ ArgIntent(1) = None
  /\ ArgIntent(2) = "confirm"
  /\ ArgIntent(3) = "reject"
  /\ WeightedScore("confirm") = 180
  /\ WeightedScore("reject") = 600
  /\ TotalWeight = 9
  /\ pf_result[1].decision = "reject"
  /\ pf_result[1].confidence.num * 3 = pf_result[1].confidence.den * 2

\* C33: majority-vote fusion counts the events per extracted intent, decides
\* for an intent with the most votes and reports as confidence its votes
\* divided by the number of events in the window, with or without intent;
\* when a decision is made the confidence is above 0 and at most 1.
C33_MajorityVoteCounts ==
  (pf_result # <<>> /\ pf_rule[1].fusion_strategy = MAJORITY_VOTE) =>
    LET decision == pf_result[1].decision
        confidence == pf_result[1].confidence
    IN /\ decision = None <=> ArgIntents = {}
       /\ decision = None => confidence.num = 0
       /\ decision # None =>
            /\ decision \in ArgIntents
            /\ \A intent \in ArgIntents : Votes(intent) <= Votes(decision)
            /\ confidence.den > 0
            /\ confidence.num * Len(pf_events) = Votes(decision) * confidence.den
            /\ 0 < confidence.num
            /\ confidence.num <= confidence.den

\* three events were put to the vote, the first without intent and two
\* for "confirm": confirm is decided with confidence 2/3
C33_Witness ==
  /\ pf_result # <<>>
  /\ pf_rule[1].fusion_strategy = MAJORITY_VOTE
  /\ Len(pf_events) = 3
  /\ ArgIntent(1) = None
  /\ ArgIntent(2) = "confirm"
  /\ ArgIntent(3) = "confirm"
  /\ Votes("confirm") = 2
  /\ pf_result[1].decision = "confirm"
  /\ pf_result[1].confidence.num * 3 = pf_result[1].confidence.den * 2

\* C34: the system starts in IDLE and is only ever in IDLE or
\* WAITING_RESPONSE; the state changes from IDLE to WAITING_RESPONSE when a
\* session starts and from WAITING_RESPONSE to IDLE when one ends, and a
\* start_interaction that replaces a session goes through IDLE on its way
\* from WAITING_RESPONSE to WAITING_RESPONSE; no other change is made.
NewlyEntered == SubSeq(entered', Len(entered) + 1, Len(entered'))

C34_IdleAndWaitingOnly ==
  /\ current_state = IDLE
  /\ [](current_state \in {IDLE, WAITING_RESPONSE})
  /\ [](LET trace == <<IDLE>> \o entered
        IN /\ Last(trace) = current_state
           /\ \A i \in 1..(Len(trace) - 1) :
                 <<trace[i], trace[i + 1]>> \in
                   {<<IDLE, WAITING_RESPONSE>>, <<WAITING_RESPONSE, IDLE>>})
  /\ [][/\ SubSeq(entered', 1, Len(entered)) = entered
        /\ NewlyEntered \in {<<>>, <<WAITING_RESPONSE>>, <<IDLE>>,
                              <<IDLE, WAITING_RESPONSE>>}
        /\ NewlyEntered = <<>> =>
              /\ current_state' = current_state
              /\ (current_session' = <<>>) = (current_session = <<>>)
              /\ ended' = ended
        /\ NewlyEntered = <<WAITING_RESPONSE>> =>
              /\ current_session = <<>>
              /\ current_session' # <<>>
              /\ current_session'[1].session_id = next_id
              /\ ended' = ended
        /\ NewlyEntered = <<IDLE>> =>
              /\ current_session # <<>>
              /\ current_session' = <<>>
              /\ Len(ended') = Len(ended) + 1
              /\ Last(ended').session_id = current_session[1].session_id
        /\ NewlyEntered = <<IDLE, WAITING_RESPONSE>> =>
              /\ last_call'.op \in {"start_interaction",
                                     "trigger_voice_command_scenario",
                                     "trigger_gesture_control_scenario"}
              /\ current_session # <<>>
              /\ current_session' # <<>>
              /\ current_session'[1].session_id = next_id
              /\ Len(ended') = Len(ended) + 1
              /\ Last(ended').session_id = current_session[1].session_id
              /\ Last(ended').metadata.end_reason = "new_session_started"]_vars

\* start_interaction has replaced a session: the system went from
\* WAITING_RESPONSE through IDLE back to WAITING_RESPONSE
C34_Witness ==
  /\ last_call.op = "start_interaction"
  /\ entered = <<WAITING_RESPONSE, IDLE, WAITING_RESPONSE>>
  /\ current_state = WAITING_RESPONSE
  /\ Len(ended) = 1
  /\ ended[1].metadata.end_reason = "new_session_started"
  /\ current_session # <<>>
  /\ current_session[1].session_id = 2

SameIdentity(a, b) ==
  /\ a.session_id = b.session_id
  /\ a.scenario = b.scenario
  /\ a.start_time = b.start_time
  /\ a.timeout = b.timeout
  /\ a.expected_modalities = b.expected_modalities
AtMostOneAppended(before, after) ==
  after = before \/ (after # <<>> /\ after = Append(before, Last(after)))

C37_ExpiredSessionDropsEvent ==
  [][(/\ calls' = calls + 1
      /\ last_call'.op = "publish"
      /\ current_session # <<>>
      /\ is_expired(current_session[1], now)) =>
       /\ current_session' = <<>>
       /\ current_state' = IDLE
       /\ session_history' # <<>>
       /\ Last(session_history') =
            [current_session[1] EXCEPT
               !.metadata = [end_reason |-> "timeout",
                             duration |-> now - current_session[1].start_time]]
       /\ Len(session_history') = Len(session_history) + 1
       /\ logged' = logged
       /\ interaction_log' = interaction_log
       /\ response_history' = response_history
       /\ next_id' = next_id
       /\ reminders' = reminders
       /\ Len(NewBusEvents) = 1]_vars

\* a gaze to the left was published after the distraction-alert session had
\* expired: the session is recorded with "timeout", holding only the gaze
\* that started it, and no other session was ever created
C37_Witness ==
  /\ last_call.op = "publish"
  /\ IsDeviation(last_call.arg[1])
  /\ calls = 2
  /\ current_session = <<>>
  /\ current_state = IDLE
  /\ Len(session_history) = 1
  /\ session_history[1].metadata.end_reason = "timeout"
  /\ session_history[1].scenario = DISTRACTION_ALERT
  /\ Len(session_history[1].received_events) = 1
  /\ next_id = 2
  /\ interaction_log = <<>>

\* C38: when ATTENTION_CONFIRMED is dispatched the confirmed session is the
\* current one and the state is WAITING_RESPONSE; the three acknowledgement
\* responses for that session are appended in the same call unless the
\* callback raises; and whether it raises or not, when the call returns the
\* session has been ended with "attention_confirmed", after the dispatch.
C38_ConfirmThenEnd ==
  [][\A i \in (Len(seen) + 1)..Len(seen') :
       LET found == seen'[i] IN
       /\ found.current_session # <<>>
       /\ found.current_session[1].session_id = found.session_id
       /\ found.current_state = WAITING_RESPONSE
       /\ Len(ended') = Len(ended) + 1
       /\ Last(ended').session_id = found.session_id
       /\ Last(ended').metadata.end_reason = "attention_confirmed"
       /\ Last(ended').received_events = found.current_session[1].received_events
       /\ Last(session_history') = Last(ended')
       /\ current_session' = <<>>
       /\ current_state' = IDLE
       /\ Last(entered') = IDLE
       /\ IF raising
            THEN sent' = sent
            ELSE /\ Len(sent') = Len(sent) + 3
                 /\ \A k \in 1..3 :
                      /\ sent'[Len(sent) + k].session_id = found.session_id
                      /\ sent'[Len(sent) + k].response_type = <<TEXT, AUDIO, VISUAL>>[k]
                 /\ SubSeq(response_history', Len(response_history) + 1,
                           Len(response_history')) =
                      SubSeq(sent', Len(sent) + 1, Len(sent'))]_vars

\* a thumbs-up confirmed a distraction alert while the callback raises: the
\* dispatch found the session current and waiting, the session was ended
\* with "attention_confirmed", and only the three alert responses exist
C38_Witness ==
  /\ raising
  /\ Len(seen) = 1
  /\ seen[1].current_state = WAITING_RESPONSE
  /\ seen[1].current_session # <<>>
  /\ seen[1].current_session[1].scenario = DISTRACTION_ALERT
  /\ Len(ended) = 1
  /\ ended[1].metadata.end_reason = "attention_confirmed"
  /\ ended[1].session_id = seen[1].session_id
  /\ Len(sent) = 3
  /\ current_session = <<>>
  /\ current_state = IDLE

\* the responses a step appended, oldest first
NewlySent == SubSeq(sent', Len(sent) + 1, Len(sent'))

\* responses form triads: one TEXT, one AUDIO and one VISUAL for one session
IsTriad(rs) ==
  /\ Len(rs) = 3
  /\ {rs[k].response_type : k \in 1..3} = {TEXT, AUDIO, VISUAL}
  /\ \A k \in 1..3 : rs[k].session_id = rs[1].session_id /\ rs[k].session_id # NoId

\* C39: every emission is exactly three responses, one TEXT, one AUDIO and
\* one VISUAL, each carrying the session's id: the alert on
\* DISTRACTION_DETECTED, the acknowledgement on ATTENTION_CONFIRMED, and the
\* reminder sent when timeout_reminder finds its session still waiting.
C39_EveryEmissionIsATriad ==
  [][NewlySent # <<>> =>
       /\ Len(NewlySent) % 3 = 0
       /\ \A g \in 0..((Len(NewlySent) \div 3) - 1) :
            IsTriad(SubSeq(NewlySent, 3 * g + 1, 3 * g + 3))]_vars

\* the reminder responses sent so far for a session
RemindersSent(session_id) ==
  SelectSeq(sent, LAMBDA r : r.content = "timeout_reminder" /\ r.session_id = session_id)

\* one reminder thread for every session created so far, started in the
\* order of creation, and no session was reminded twice
OneReminderEach ==
  /\ scheduled = [i \in 1..(next_id - 1) |-> i]
  /\ \A s \in 1..(next_id - 1) :
       \/ RemindersSent(s) = <<>>
       \/ /\ Len(RemindersSent(s)) = 2
          /\ RemindersSent(s)[1].response_type = AUDIO
          /\ RemindersSent(s)[2].response_type = VISUAL
          /\ RemindersSent(s)[1].timestamp = RemindersSent(s)[2].timestamp
  /\ \A r \in reminders : r.session_id \in 1..(next_id - 1) /\ RemindersSent(r.session_id) = <<>>
  /\ \A r, q \in reminders : r.session_id = q.session_id => r = q

\* the reminder threads a step started
NewlyScheduled == SubSeq(scheduled', Len(scheduled) + 1, Len(scheduled'))

\* the step is a reminder thread r running to its end
ReminderRan(r) ==
  /\ r \in reminders
  /\ reminders' = reminders \ {r}
  /\ calls' = calls

\* C40: one reminder thread is started per session start, whatever the
\* scenario, at the change into WAITING_RESPONSE, due ReminderDelay later;
\* a session is reminded at most once; and a reminder thread that finds
\* its session ended or replaced ends without sending anything and leaves
\* the state, the current session and the history as they are.
C40_OneReminderPerSession ==
  /\ []OneReminderEach
  /\ [][/\ Len(NewlyScheduled) = next_id' - next_id
        /\ Len(NewlyScheduled) =
             Len(SelectSeq(NewlyEntered, LAMBDA s : s = WAITING_RESPONSE))
        /\ \A k \in 1..Len(NewlyScheduled) :
             /\ NewlyScheduled[k] = next_id + k - 1
             /\ [session_id |-> NewlyScheduled[k], due |-> now + ReminderDelay]
                  \in reminders'
        /\ \A r \in reminders :
             ReminderRan(r) =>
               IF /\ current_session # <<>>
                  /\ current_session[1].session_id = r.session_id
                  /\ current_state = WAITING_RESPONSE
                 THEN /\ Len(NewlySent) = 2
                      /\ \A k \in 1..2 :
                           /\ NewlySent[k].session_id = r.session_id
                           /\ NewlySent[k].content = "timeout_reminder"
                      /\ RemindersSent(r.session_id) = <<>>
                      /\ UNCHANGED <<current_state, current_session, session_history,
                                     next_id, interaction_log, event_history>>
                 ELSE UNCHANGED <<current_state, current_session, session_history,
                                  next_id, interaction_log, event_history,
                                  response_history, histvars>>
        /\ (\E k \in 1..Len(NewlySent) : NewlySent[k].content = "timeout_reminder")
             => \E r \in reminders : ReminderRan(r)]_vars

\* the reminder thread of session 1 ran after session 2 had replaced it:
\* nothing was sent for either, session 2 is still current and waiting, and
\* its own reminder thread is still asleep
C40_Witness ==
  /\ scheduled = <<1, 2>>
  /\ \A r \in reminders : r.session_id = 2
  /\ reminders # {}
  /\ current_session # <<>>
  /\ current_session[1].session_id = 2
  /\ current_state = WAITING_RESPONSE
  /\ Len(ended) = 1
  /\ ended[1].session_id = 1
  /\ ended[1].metadata.end_reason = "new_session_started"
  /\ RemindersSent(1) = <<>>
  /\ RemindersSent(2) = <<>>

====
